---- MODULE Spec2Model ----
(***************************************************************************)
(* Virtual-background frame pump of src/src/App.jsx: the segmenter hook    *)
(* (useSegmenter), the per-frame draw callback of useBackgroundEffect with *)
(* its temporal mask blender, load controller and texture uploads, and the *)
(* RecordScreen state the pump reads.  The file holds two versions of the  *)
(* pump; ver = 1 is the first one (lines 27-473), ver = 2 the current one  *)
(* (lines 1446-1844).                                                      *)
(*                                                                         *)
(* Numbers: JavaScript doubles are held in fixed point.  Latencies are     *)
(* whole milliseconds, avgFrameTime counts 1/AvgScale ms, mask cells and   *)
(* blend weights count 1/Unit.  Divisions round down.                      *)
(***************************************************************************)
EXTENDS Integers, Sequences, FiniteSets, TLC

VARIABLES
  env,               \* the run's environment: clock latencies, run length, user activity
  ver,               \* which version of the pump runs
  initPc,            \* useSegmenter/init: the await the async function is at
  cancelled,         \* useSegmenter: the effect's cancelled flag
  attempts,          \* the createFromOptions calls made so far, with their outcomes
  segClosed,         \* number of close() calls made on segmenter instances
  segmenterRef,      \* segmenterRef.current holds an open instance
  segmenterReady,    \* React state segmenterReady
  segmenterError,    \* React state segmenterError is set
  selectedBg,        \* React state selectedBg
  uploadedImage,     \* React state uploadedImage (its src, or "null")
  bgImages,          \* ids present in bgImagesRef.current (preload finished)
  videoState,        \* videoRef.current: "paused" | "playing" | "ended", "null" once detached
  videoDims,         \* <<videoWidth, videoHeight>>
  videoFrame,        \* the decoded frame the element currently shows
  selectedBgRef,     \* selectedBgRef.current
  segmenterReadyRef, \* segmenterReadyRef.current
  uploadedImageRef,  \* uploadedImageRef.current
  lastDims,          \* lastDimsRef.current
  lastBgKey,         \* lastBgKeyRef.current
  frameCount,        \* frameCountRef.current
  maskAlloc,         \* maskAllocRef.current
  hasMask,           \* hasMaskRef.current
  blendMask,         \* blendMaskRef.current (<<>> is null)
  avgFrameTime,      \* avgFrameTimeRef.current, in 1/AvgScale ms
  skipInterval,      \* skipIntervalRef.current
  gl,                \* the WebGL side: canvas, viewport, textures, u_mode, presented output
  it,                \* what the last pump iteration did
  okEver,            \* some segmenter invocation has returned a mask
  compEver,          \* some iteration has drawn in Composite mode
  measCount,         \* number of load-controller updates so far
  animFrame,         \* the callback named by animFrameRef.current is pending
  pendingFrames,     \* number of requestAnimationFrame(draw) callbacks pending
  lastTime,          \* lastTimeRef.current (first version only)
  webgl2,            \* canvas.getContext("webgl2") returned a context
  renderer,          \* rendererRef.current is set
  glLive,            \* the GPU objects created by initWebGL and not deleted
  mounted,           \* RecordScreen is mounted
  tearLog,           \* what the unmount did, in order
  http,              \* the upload server: one POST /api/upload on its way through
  recScreen,         \* RecordScreen's recording: phase, countdown, timer and recorder
  app                \* App: the screen shown and the upload of the recorded video

pageVars == <<env, ver, initPc, segmenterRef, segmenterReady, segmenterError,
          selectedBg, uploadedImage, bgImages, videoState, videoDims, videoFrame,
          selectedBgRef, segmenterReadyRef, uploadedImageRef, lastDims, lastBgKey,
          frameCount, maskAlloc, hasMask, blendMask, avgFrameTime, skipInterval,
          gl, it, okEver, compEver, measCount, animFrame, pendingFrames, lastTime,
          cancelled, attempts,
          segClosed, webgl2, renderer, glLive, mounted, tearLog>>
vars == <<pageVars, http, recScreen, app>>

segVars == <<initPc, segmenterRef, segmenterReady, segmenterError, cancelled,
             attempts, segClosed>>
glVars == <<webgl2, renderer, glLive>>
lifeVars == <<mounted, tearLog>>
uiVars == <<selectedBg, uploadedImage, bgImages>>
videoVars == <<videoState, videoDims, videoFrame>>
refVars == <<selectedBgRef, segmenterReadyRef, uploadedImageRef>>
pumpVars == <<lastDims, lastBgKey, frameCount, maskAlloc, hasMask, blendMask,
              avgFrameTime, skipInterval, gl, it, okEver, compEver, measCount,
              animFrame, pendingFrames, lastTime>>

(***************************************************************************)
(* Bounds of the model.                                                    *)
(***************************************************************************)
\* pump iterations past the passthrough gate in a run with an active user
MaxFrames == 3
\* the same, in a run with one fixed segmenter latency
MaxLoadFrames == 110
\* mask length in blocks of 16 cells (the stride of the motion estimate)
MaskBlocks == 1
\* fixed-point resolution of avgFrameTime
AvgScale == 1000
\* fixed-point resolution of mask cells and blend weights
Unit == 1000
\* longest email field of an upload request, in characters
MaxEmailLen == 5
\* blends of one repeated mask after which the motion estimate has come down
\* to the rounding of the stored cells
BlendSettle == 15
\* that rounding: the distance, in 1/Unit, at which a stored cell stops moving
RoundOff == 2
\* blends applied in a row to masks of changing length
MaxBlends == 3
\* the skip gate and load controller on their own: the largest average, in
\* ms, they start from, the frame counters they start from, and the number of
\* segmenter calls a run is followed for
MaxAvg == 20
StartFrames == 12
MaxGateCalls == 5
\* the timestamp rule on its own: the largest clock reading and the number of
\* calls in a row
MaxClock == 5
MaxStamps == 6
\* recordings made one after the other on one RecordScreen
MaxTakes == 3
\* uploads attempted one after the other
MaxUploads == 2
\* measurements within which a fixed latency of at most 2 ms has brought the
\* skip interval down to 1 (16 -> below 3 takes 26 updates, then 3 decrements)
FastSettle == 28

(***************************************************************************)
(* Values the environment supplies.                                        *)
(***************************************************************************)
\* SEG_WIDTH x SEG_HEIGHT, shrunk to 16 x MaskBlocks cells
SegDims == <<16, MaskBlocks>>
MaskLen == SegDims[1] * SegDims[2]

\* confidence masks the segmenter can return: a subject filling the first half
\* of the grid, and a subject whose cells alternate between boundary and foreground
MaskHalf == [i \in 1..MaskLen |-> IF 2 * i <= MaskLen THEN Unit ELSE 0]
MaskEdge == [i \in 1..MaskLen |-> IF i % 2 = 1 THEN Unit \div 2 ELSE (9 * Unit) \div 10]
Masks == {MaskHalf, MaskEdge}
\* a subject whose confidence rises across the grid, and its complement
MaskRamp == [i \in 1..MaskLen |-> ((i - 1) * Unit) \div (MaskLen - 1)]
MaskInv == [i \in 1..MaskLen |-> Unit - MaskRamp[i]]
StepMasks == {MaskHalf, MaskEdge, MaskRamp, MaskInv}

\* what one call of segment()/segmentForVideo() can do
SegResults(masks) == {[r |-> "threw", mask |-> <<>>], [r |-> "nomask", mask |-> <<>>]}
                       \cup {[r |-> "ok", mask |-> m] : m \in masks}
\* the same for a segmenter that always returns a mask
OkResults(masks) == {[r |-> "ok", mask |-> m] : m \in masks}

\* measured latencies, in ms, of a run with an active user
WideLatencies == {2, 20}
\* the fixed latency of a synthetic segmenter
FixedLatencies == {0, 1, 2, 5, 9, 20}

VideoSizes == {<<0, 0>>, <<640, 480>>, <<1280, 720>>}
\* the decoded camera frames
Frames == {1, 2}
Blobs == {"blob:1"}

(***************************************************************************)
(* BACKGROUNDS and its lookups.                                            *)
(***************************************************************************)
BACKGROUNDS == {[id |-> "none", type |-> "none"],
                [id |-> "living-room", type |-> "image"],
                [id |-> "upload", type |-> "upload"]}
BgIds == {b.id : b \in BACKGROUNDS}
ImageIds == {b.id : b \in {c \in BACKGROUNDS : c.type = "image"}}
\* BACKGROUNDS.find((b) => b.id === curBg)?.type
BgType(id) == IF \E b \in BACKGROUNDS : b.id = id
              THEN (CHOOSE b \in BACKGROUNDS : b.id = id).type
              ELSE "undefined"

(***************************************************************************)
(* Pure pieces of the draw callback.                                       *)
(***************************************************************************)
Abs(x) == IF x < 0 THEN -x ELSE x
Min(a, b) == IF a < b THEN a ELSE b

\* video.videoWidth || 640
DimOr(v, d) == IF v = 0 THEN d ELSE v
FrameW(dims) == DimOr(dims[1], 640)
FrameH(dims) == DimOr(dims[2], 480)

\* an idle test that forgets video.ended
NoFramePausedOnly(state) == state \in {"null", "paused"}

\* !video || video.paused || video.ended
NoFrame(state) == state \in {"null", "paused", "ended"}

\* a resize test that allocates on the first frame only
NeedsReallocFirstOnly(last, w, h) == last = <<0, 0>>

\* lastDimsRef.current.w !== w || lastDimsRef.current.h !== h
NeedsRealloc(last, w, h) == last[1] # w \/ last[2] # h

\* a gate that forgets the readiness tests
GateOnSelectionOnly(curBg, curReady, ref) == curBg = "none"
\* a gate that forgets the "none" selection
GateOnReadinessOnly(curBg, curReady, ref) == ~curReady \/ ~ref

\* a gate that trusts the instance in segmenterRef without the readiness flag
GateIgnoresReady(curBg, curReady, ref) == curBg = "none" \/ ~ref

\* curBg === "none" || !curReady || !segmenterRef.current
PassthroughGate(curBg, curReady, ref) == curBg = "none" \/ ~curReady \/ ~ref

\* a gate that lets one frame more pass than the interval says
ShouldSegmentOffByOne(fc, skip) == fc % (skip + 1) = 0

\* a gate that tests the counter before its increment
ShouldSegmentBeforeIncrement(fc, skip) == (fc - 1) % skip = 0

\* frameCountRef.current % skipIntervalRef.current === 0
ShouldSegment(fc, skip) == fc % skip = 0

\* a result without confidence masks taken for a mask
MaskAcquiredUnlessThrown(seg, res) == seg /\ res.r # "threw"

\* try { result = segment(...); if (result.confidenceMasks?.length > 0) mask = ... }
\* catch {}  followed by  if (mask): a mask was acquired in this iteration
MaskAcquired(seg, res) == seg /\ res.r = "ok"

\* prev && prev.length === mask.length
HasPrev(prev, mask) == prev # <<>> /\ Len(prev) = Len(mask)

\* for (i = 0; i < mask.length; i += 16) diff += Math.abs(mask[i] - prev[i])
RECURSIVE StrideSum(_, _, _)
StrideSum(mask, prev, i) ==
  IF i >= Len(mask) THEN 0
  ELSE Abs(mask[i + 1] - prev[i + 1]) + StrideSum(mask, prev, i + 16)

\* diff /= (mask.length >> 4)
MotionDiff(mask, prev) == StrideSum(mask, prev, 0) \div (Len(mask) \div 16)

\* a weight without its ceiling
GlobalAlphaUncapped(diff) == (15 * Unit) \div 100 + diff * 6

\* Math.min(0.9, 0.15 + diff * 6.0)
GlobalAlpha(diff) == Min((9 * Unit) \div 10, (15 * Unit) \div 100 + diff * 6)

\* a boundary weight as low as the floor of the global weight
BoundaryWeightAtFloor(v) == (15 * Unit) \div 100

\* the weight a boundary cell blends at: 0.97 in the first version, 1.0 now
BoundaryWeight(v) == IF v = 1 THEN (97 * Unit) \div 100 ELSE Unit

\* an uncertainty that forgets the absolute value
UncertaintySigned(curr) == Unit - (curr * 2 - Unit)

\* 1.0 - Math.abs(curr * 2.0 - 1.0)
Uncertainty(curr) == Unit - Abs(curr * 2 - Unit)

\* globalAlpha + uncertainty * (boundary - globalAlpha)
LocalAlpha(ga, unc, v) == ga + (unc * (BoundaryWeight(v) - ga)) \div Unit

\* curr * localAlpha + blend[i] * (1.0 - localAlpha)
BlendCell(curr, old, la) == (curr * la + old * (Unit - la) + Unit \div 2) \div Unit

\* a blender that starts from an all-zero history instead of copying
TemporalBlendFromZero(prev, mask, v) ==
  LET old == IF HasPrev(prev, mask) THEN prev ELSE [i \in 1..Len(mask) |-> 0]
      ga == GlobalAlpha(MotionDiff(mask, old))
  IN [i \in 1..Len(mask) |->
        BlendCell(mask[i], old[i], LocalAlpha(ga, Uncertainty(mask[i]), v))]

\* a blender that keeps its history when the new mask has another length
TemporalBlendKeepsHistory(prev, mask, v) ==
  IF prev = <<>> THEN mask
  ELSE IF Len(prev) # Len(mask) THEN prev
  ELSE LET ga == GlobalAlpha(MotionDiff(mask, prev))
       IN [i \in 1..Len(mask) |->
             BlendCell(mask[i], prev[i], LocalAlpha(ga, Uncertainty(mask[i]), v))]

\* the temporal mask blender: copy on the first mask, blend afterwards
TemporalBlend(prev, mask, v) ==
  IF ~HasPrev(prev, mask) THEN mask
  ELSE LET ga == GlobalAlpha(MotionDiff(mask, prev))
       IN [i \in 1..Len(mask) |->
             BlendCell(mask[i], prev[i], LocalAlpha(ga, Uncertainty(mask[i]), v))]

\* the bound of the skip interval: < 4 in the first version, < 2 now
MaxSkip(v) == IF v = 1 THEN 4 ELSE 2
\* useRef(2) in the first version, useRef(1) now
InitSkip(v) == IF v = 1 THEN 2 ELSE 1

\* an average that forgets its history
LoadAvgLatest(avg, segTime) == segTime * AvgScale

\* a call that is handed the clock reading as it is
TimestampUnadjusted(segStart, last) == segStart

\* segStart > lastTimeRef.current ? segStart : lastTimeRef.current + 1
Timestamp(segStart, last) == IF segStart > last THEN segStart ELSE last + 1

\* performance.now() at the start of a segmentation in the runs of the page:
\* a clock that has moved on by a tick at every call
SteadyNow(calls) == calls + 1

\* an average that starts from nothing
InitAvgZero(v) == 0

\* avgFrameTimeRef = useRef(16), in both versions
InitAvg(v) == 16 * AvgScale

\* avgFrameTimeRef.current * 0.9 + segTime * 0.1
LoadAvg(avg, segTime) == (avg * 9 + segTime * AvgScale) \div 10

\* a controller with its two comparisons of the average inverted
LoadSkipInverted(avg, skip, v) ==
  IF avg < 8 * AvgScale /\ skip < MaxSkip(v) THEN skip + 1
  ELSE IF avg > 3 * AvgScale /\ skip > 1 THEN skip - 1
  ELSE skip

\* a controller that stops lowering the interval at 2
LoadSkipFloorTwo(avg, skip, v) ==
  IF avg > 8 * AvgScale /\ skip < MaxSkip(v) THEN skip + 1
  ELSE IF avg < 3 * AvgScale /\ skip > 2 THEN skip - 1
  ELSE skip

\* a controller whose upper test is off by one
LoadSkipPastMax(avg, skip, v) ==
  IF avg > 8 * AvgScale /\ skip <= MaxSkip(v) THEN skip + 1
  ELSE IF avg < 3 * AvgScale /\ skip > 1 THEN skip - 1
  ELSE skip

\* if (avg > 8 && skip < MAX) skip++; else if (avg < 3 && skip > 1) skip--;
LoadSkip(avg, skip, v) ==
  IF avg > 8 * AvgScale /\ skip < MaxSkip(v) THEN skip + 1
  ELSE IF avg < 3 * AvgScale /\ skip > 1 THEN skip - 1
  ELSE skip

\* "upload:" + curUploaded.src
UploadKey(src) == "upload:" \o src
\* the pixels of a preloaded preset image
ImagePixels(id) == "/backgrounds/" \o id

\* a background branch that uploads the image in every iteration
BgUploadEveryFrame(curBg, curUploaded, loaded, key, tex) ==
  IF BgType(curBg) = "image"
  THEN IF curBg \in loaded
       THEN [tex |-> ImagePixels(curBg), key |-> curBg, up |-> TRUE]
       ELSE [tex |-> tex, key |-> key, up |-> FALSE]
  ELSE IF BgType(curBg) = "upload" /\ curUploaded # "null"
  THEN [tex |-> curUploaded, key |-> UploadKey(curUploaded), up |-> TRUE]
  ELSE [tex |-> tex, key |-> key, up |-> FALSE]

\* the background branch of draw: the texture and key it leaves, and whether
\* it called texImage2D
BgUpload(curBg, curUploaded, loaded, key, tex) ==
  IF BgType(curBg) = "image"
  THEN IF curBg \in loaded /\ key # curBg
       THEN [tex |-> ImagePixels(curBg), key |-> curBg, up |-> TRUE]
       ELSE [tex |-> tex, key |-> key, up |-> FALSE]
  ELSE IF BgType(curBg) = "upload" /\ curUploaded # "null"
  THEN IF key # UploadKey(curUploaded)
       THEN [tex |-> curUploaded, key |-> UploadKey(curUploaded), up |-> TRUE]
       ELSE [tex |-> tex, key |-> key, up |-> FALSE]
  ELSE [tex |-> tex, key |-> key, up |-> FALSE]

\* FRAG_SRC: u_mode 0 copies the video texel, otherwise the output is a function
\* of the four textures (kept symbolic)
FragColor(mode, g) ==
  IF mode = 0 THEN <<"video", g.videoTex, g.viewport>>
  ELSE <<"composite", g.videoTex, g.viewport, g.maskTex, g.rawMaskTex, g.bgTex>>

(***************************************************************************)
(* The upload server (src/unnamed/part_001): a POST /api/upload passes     *)
(* through upload.single('video'), then the route handler, and on an error *)
(* through the error middleware.                                           *)
(***************************************************************************)
\* the characters an email field is made of: a letter, the at sign, the dot
\* and a blank
Chars == {"a", "@", ".", " "}
Strings == UNION {[1..n -> Chars] : n \in 0..MaxEmailLen}
\* the class [^\s@]
Plain(c) == c \notin {" ", "@"}

\* a pattern that lets an at sign into the local part
EmailMatchesExtraAt(s) ==
  \E i \in 1..Len(s), j \in 1..Len(s) :
    /\ s[i] = "@" /\ s[j] = "." /\ 1 < i /\ i + 1 < j /\ j < Len(s)
    /\ \A k \in 1..(i - 1) : s[k] # " "
    /\ \A k \in (i + 1)..(j - 1) : Plain(s[k])
    /\ \A k \in (j + 1)..Len(s) : Plain(s[k])

\* email.match(/^[^\s@]+@[^\s@]+\.[^\s@]+$/): the at sign at i, the dot at j,
\* three non-empty runs of [^\s@] around them
EmailMatches(s) ==
  \E i \in 1..Len(s), j \in 1..Len(s) :
    /\ s[i] = "@" /\ s[j] = "." /\ 1 < i /\ i + 1 < j /\ j < Len(s)
    /\ \A k \in 1..(i - 1) : Plain(s[k])
    /\ \A k \in (i + 1)..(j - 1) : Plain(s[k])
    /\ \A k \in (j + 1)..Len(s) : Plain(s[k])

\* the email field of req.body: absent, a string, or a value without match()
\* (a repeated field, a JSON number)
Emails == {[k |-> "absent", s |-> <<>>], [k |-> "nonstring", s |-> <<>>]}
            \cup {[k |-> "string", s |-> t] : t \in Strings}
\* the file part of a multipart request: none, a video, a file of another
\* type, a video over the size limit, a file under another field name
Files == {"none", "video", "other", "big", "wrongfield"}
\* requests: multipart forms, JSON bodies, and bodies no parser takes
Requests ==
  {[body |-> "multipart", email |-> e, file |-> f] : e \in Emails, f \in Files}
    \cup {[body |-> "json", email |-> e, file |-> "none"] : e \in Emails}
    \cup {[body |-> "none", email |-> [k |-> "absent", s |-> <<>>], file |-> "none"]}

NoRequest == [pc |-> "none", req |-> [body |-> "none",
                                      email |-> [k |-> "absent", s |-> <<>>],
                                      file |-> "none"],
              reqFile |-> FALSE, disk |-> FALSE, parsed |-> FALSE,
              err |-> "none", res |-> <<>>]
\* a request arrives; express.json() leaves req.body unset (parsed = FALSE)
\* or sets it to {} when it does not take the body, depending on its version
Arrives(r, p) == [NoRequest EXCEPT !.pc = "multer", !.req = r,
                                   !.parsed = (r.body # "none" \/ p)]

\* fileFilter and limits of upload.single('video'): the error it passes on
MulterError(f) ==
  IF f = "other" THEN "Only video files are allowed"
  ELSE IF f = "big" THEN "MulterError: File too large"
  ELSE IF f = "wrongfield" THEN "MulterError: Unexpected field"
  ELSE "none"

\* a handler that does not test req.file
HandlerOutcomeNoFileTest(h) ==
  IF ~h.parsed THEN "throws"
  ELSE IF h.req.email.k = "absent" \/ h.req.email = [k |-> "string", s |-> <<>>]
  THEN "bademail"
  ELSE IF h.req.email.k = "nonstring" THEN "throws"
  ELSE IF ~EmailMatches(h.req.email.s) THEN "bademail"
  ELSE "success"

\* the route handler's branch: destructuring or email.match throws, the email
\* test fails, req.file is missing, or success
HandlerOutcome(h) ==
  IF ~h.parsed THEN "throws"
  ELSE IF h.req.email.k = "absent" \/ h.req.email = [k |-> "string", s |-> <<>>]
  THEN "bademail"
  ELSE IF h.req.email.k = "nonstring" THEN "throws"
  ELSE IF ~EmailMatches(h.req.email.s) THEN "bademail"
  ELSE IF ~h.reqFile THEN "nofile"
  ELSE "success"

\* res.status(400).json({ error })
ErrorResponse(msg) == [status |-> 400, body |-> [error |-> msg]]
\* res.json({ success: true, message, filename, email })
SuccessResponse(email) ==
  [status |-> 200,
   body |-> [success |-> TRUE, message |-> "Video uploaded successfully",
             filename |-> "testimonial-1.webm", email |-> email]]

\* upload.single('video')
MulterSingle ==
  /\ http.pc = "multer"
  /\ LET f == IF http.req.body = "multipart" THEN http.req.file ELSE "none"
         e == MulterError(f)
     IN http' = [http EXCEPT !.pc = IF e = "none" THEN "handler" ELSE "error",
                             !.err = e,
                             !.reqFile = (f = "video"),
                             !.disk = (f = "video")]
  /\ UNCHANGED <<pageVars, recScreen, app>>

\* (req, res) => { ... }
UploadHandler ==
  /\ http.pc = "handler"
  /\ LET o == HandlerOutcome(http)
     IN http' =
          IF o = "throws"
          THEN [http EXCEPT !.pc = "error", !.err = "TypeError"]
          ELSE IF o = "bademail"
          THEN [http EXCEPT !.pc = "done", !.disk = FALSE,
                            !.res = Append(@, ErrorResponse("Valid email is required"))]
          ELSE IF o = "nofile"
          THEN [http EXCEPT !.pc = "done",
                            !.res = Append(@, ErrorResponse("Video file is required"))]
          ELSE [http EXCEPT !.pc = "done",
                            !.res = Append(@, SuccessResponse(http.req.email.s))]
  /\ UNCHANGED <<pageVars, recScreen, app>>

\* app.use((err, req, res, next) => ...)
ErrorMiddleware ==
  /\ http.pc = "error"
  /\ http' = [http EXCEPT !.pc = "done",
                          !.res = Append(@, ErrorResponse(http.err))]
  /\ UNCHANGED <<pageVars, recScreen, app>>

(***************************************************************************)
(* Recording on RecordScreen (src/src/App.jsx 1995-2056): the countdown    *)
(* interval, the MediaRecorder, the elapsed timer, stop and retake.        *)
(***************************************************************************)
\* const MAX_DURATION = 30
MAX_DURATION == 30
\* let c = 3 in startCountdown
CountdownFrom == 3

\* RecordScreen as mounted: useState("setup"), useState(3), useState(0), the
\* refs null; takes counts the recordings started, last names the handler
\* that ran last
RecMounted ==
  [phase |-> "setup", countdown |-> CountdownFrom, c |-> 0, iv |-> FALSE,
   elapsed |-> 0, timer |-> FALSE, mediaRecorder |-> "null",
   stopEvent |-> FALSE, stops |-> 0, recordedBlob |-> FALSE,
   cameraReady |-> FALSE, takes |-> 0, last |-> "mount"]

\* a stopRecording that calls stop() whatever the recorder's state
StopRecordingUnguarded(r) ==
  [r EXCEPT !.timer = FALSE,
            !.mediaRecorder = IF @ = "null" THEN @ ELSE "inactive",
            !.stopEvent = (r.mediaRecorder # "null"),
            !.stops = IF r.mediaRecorder # "null" THEN @ + 1 ELSE @]

\* stopRecording: clearInterval(timerRef.current), then stop() on a recorder
\* that is recording; stop() makes it inactive at once and queues onstop
StopRecording(r) ==
  IF r.mediaRecorder = "recording"
  THEN [r EXCEPT !.timer = FALSE, !.mediaRecorder = "inactive",
                 !.stopEvent = TRUE, !.stops = @ + 1]
  ELSE [r EXCEPT !.timer = FALSE]

\* an updater that counts on without a limit
ElapsedTickUnlimited(r) == [r EXCEPT !.elapsed = @ + 1]

\* the updater of setElapsed in the timer callback
ElapsedTick(r) ==
  IF r.elapsed + 1 >= MAX_DURATION
  THEN [StopRecording(r) EXCEPT !.elapsed = MAX_DURATION]
  ELSE [r EXCEPT !.elapsed = @ + 1]

\* startRecording: a new MediaRecorder, start(100), phase and elapsed, the
\* one-second timer
StartRecording(r) ==
  [r EXCEPT !.mediaRecorder = "recording", !.stops = 0, !.stopEvent = FALSE,
            !.phase = "recording", !.elapsed = 0, !.timer = TRUE,
            !.takes = @ + 1]

recRest == <<http, app, pageVars>>

\* getUserMedia resolved: setCameraReady(true)
CameraReady ==
  /\ ~recScreen.cameraReady
  /\ recScreen' = [recScreen EXCEPT !.cameraReady = TRUE, !.last = "camera"]
  /\ UNCHANGED recRest

\* the record button of phase "setup" (disabled until the camera is ready)
StartCountdown ==
  /\ recScreen.phase = "setup" /\ recScreen.cameraReady /\ recScreen.takes < MaxTakes
  /\ recScreen' = [recScreen EXCEPT !.phase = "countdown", !.c = CountdownFrom,
                        !.countdown = CountdownFrom, !.iv = TRUE,
                        !.last = "startCountdown"]
  /\ UNCHANGED recRest

\* the countdown interval's callback; new MediaRecorder(...) throws where the
\* browser does not record video/webm;codecs=vp9,opus, and startRecording
\* ends there
CountdownTick ==
  /\ recScreen.iv
  /\ \E supported \in BOOLEAN :
       recScreen' =
         IF recScreen.c - 1 <= 0
         THEN IF supported
              THEN [StartRecording([recScreen EXCEPT !.c = @ - 1, !.iv = FALSE])
                      EXCEPT !.last = "startRecording"]
              ELSE [recScreen EXCEPT !.c = @ - 1, !.iv = FALSE,
                                     !.last = "startFailed"]
         ELSE [recScreen EXCEPT !.c = @ - 1, !.countdown = recScreen.c - 1,
                                !.last = "countdown"]
  /\ UNCHANGED recRest

\* the elapsed timer's callback
TimerTick ==
  /\ recScreen.timer
  /\ recScreen' = [ElapsedTick(recScreen) EXCEPT !.last = "tick"]
  /\ UNCHANGED recRest

\* the stop button of phase "recording"
StopClick ==
  /\ recScreen.phase = "recording"
  /\ recScreen' = [StopRecording(recScreen) EXCEPT !.last = "stopClick"]
  /\ UNCHANGED recRest

\* mr.onstop: the blob, its URL, phase "preview"
RecorderStopped ==
  /\ recScreen.stopEvent
  /\ recScreen' = [recScreen EXCEPT !.stopEvent = FALSE, !.recordedBlob = TRUE,
                        !.phase = "preview", !.last = "onstop"]
  /\ UNCHANGED recRest

\* retake, the button of phase "preview"
Retake ==
  /\ recScreen.phase = "preview"
  /\ recScreen' = [recScreen EXCEPT !.recordedBlob = FALSE, !.phase = "setup",
                        !.elapsed = 0, !.last = "retake"]
  /\ UNCHANGED recRest

(***************************************************************************)
(* App (src/src/App.jsx 2466-2537): the screen shown, and the upload of    *)
(* the recorded video by XMLHttpRequest.                                   *)
(***************************************************************************)
\* the statuses a response can carry: the ends of 200..299, 300 next to
\* them, and the error statuses of the server and of what stands before it
Statuses == {200, 201, 299, 300, 400, 404, 413, 500}
\* error fields: the server's messages, and an empty one
ErrorFields == {"", "Valid email is required", "Upload error: File too large"}
\* xhr.responseText: JSON with or without an error field, or no JSON at all
Bodies == {[json |-> TRUE, hasError |-> TRUE, error |-> e] : e \in ErrorFields}
            \cup {[json |-> TRUE, hasError |-> FALSE, error |-> ""],
                  [json |-> FALSE, hasError |-> FALSE, error |-> ""]}
Responses == {[status |-> st, body |-> b] : st \in Statuses, b \in Bodies}
\* no response (yet), and the request that failed on the network
NoResponse == [status |-> 0, body |-> [json |-> FALSE, hasError |-> FALSE, error |-> ""]]
NetworkError == [status |-> -1, body |-> [json |-> FALSE, hasError |-> FALSE, error |-> ""]]

\* xhr.status >= 200 only
IsSuccessNoUpperEnd(status) == status >= 200
\* xhr.status >= 200 && xhr.status < 300
IsSuccess(status) == status >= 200 /\ status < 300

\* a message taken from every error field, an empty one too
ErrorMessageAnyField(b) ==
  IF b.json /\ b.hasError THEN b.error ELSE "Upload failed. Please try again."
\* msg of xhr.onload: r.error where the body parses and r.error is truthy
ErrorMessage(b) ==
  IF b.json /\ b.hasError /\ b.error # "" THEN b.error
  ELSE "Upload failed. Please try again."

\* App as mounted; uploads and failed count the attempts and those that
\* failed, resp is what the current attempt's request received
AppMounted ==
  [screen |-> "welcome", recordedBlob |-> FALSE, uploadProgress |-> 0,
   uploadError |-> "", xhr |-> "none", timeout |-> FALSE, resp |-> NoResponse,
   uploads |-> 0, failed |-> 0]

appRest == <<http, recScreen, pageVars>>

\* WelcomeScreen onStart, RecordScreen onBack, EmailScreen onBack and onHome
Navigate ==
  /\ \E to \in {"welcome", "record"} :
       /\ \/ app.screen = "welcome" /\ to = "record"
          \/ app.screen = "record" /\ to = "welcome"
          \/ app.screen = "email"
       /\ app' = [app EXCEPT !.screen = to]
  /\ UNCHANGED appRest

\* handleVideoReady
HandleVideoReady ==
  /\ app.screen = "record"
  /\ app' = [app EXCEPT !.recordedBlob = TRUE, !.screen = "email"]
  /\ UNCHANGED appRest

\* handleEmail and uploadVideo up to xhr.send
HandleEmail ==
  /\ app.screen = "email" /\ app.uploads < MaxUploads
  /\ app' = [app EXCEPT !.screen = "uploading", !.uploadProgress = 0,
                        !.uploadError = "", !.xhr = "sent", !.resp = NoResponse,
                        !.uploads = @ + 1]
  /\ UNCHANGED appRest

\* xhr.upload.onprogress with a computable length
XhrProgress ==
  /\ app.xhr = "sent"
  /\ \E p \in {50, 100} : app' = [app EXCEPT !.uploadProgress = p]
  /\ UNCHANGED appRest

\* xhr.onload
XhrLoad ==
  /\ app.xhr = "sent"
  /\ \E r \in Responses :
       app' = IF IsSuccess(r.status)
              THEN [app EXCEPT !.xhr = "done", !.resp = r, !.uploadProgress = 100,
                               !.timeout = TRUE]
              ELSE [app EXCEPT !.xhr = "done", !.resp = r,
                               !.uploadError = ErrorMessage(r.body),
                               !.screen = "email", !.failed = @ + 1]
  /\ UNCHANGED appRest

\* xhr.onerror
XhrError ==
  /\ app.xhr = "sent"
  /\ app' = [app EXCEPT !.xhr = "done", !.resp = NetworkError,
                        !.uploadError = "Network error. Please try again.",
                        !.screen = "email", !.failed = @ + 1]
  /\ UNCHANGED appRest

\* the callback of setTimeout(() => setScreen("success"), 400)
SuccessTimeout ==
  /\ app.timeout
  /\ app' = [app EXCEPT !.timeout = FALSE, !.screen = "success"]
  /\ UNCHANGED appRest

\* handleReset, the button of SuccessScreen
HandleReset ==
  /\ app.screen = "success"
  /\ app' = [app EXCEPT !.screen = "welcome", !.recordedBlob = FALSE,
                        !.uploadProgress = 0, !.uploadError = ""]
  /\ UNCHANGED appRest

(***************************************************************************)
(* Initial state: RecordScreen has mounted, both effects have run, the     *)
(* first draw() found the video paused.                                    *)
(***************************************************************************)
\* what RecordScreen can observe of useBackgroundEffect: the hook returns
\* nothing and sets no state, with a context (ctx) or without
EffectStatus(ctx) == "none"

\* the objects initWebGL creates: program, vertex array, buffer, four textures
GpuObjects == {"program", "vao", "buf", "video", "mask", "rawMask", "bg"}

\* initWebGL and a fresh canvas: 300x150 canvas and viewport, no video or mask
\* storage (and no texImage2D call yet on either mask texture), the 1x1
\* placeholder in the background texture
InitGL == [canvas |-> <<300, 150>>, viewport |-> <<300, 150>>,
           videoAlloc |-> <<0, 0>>, videoTex |-> 0,
           rawMaskAlloc |-> <<0, 0>>, maskTexAlloc |-> <<0, 0>>,
           rawMaskAllocs |-> 0, maskTexAllocs |-> 0,
           rawMaskTex |-> <<>>, maskTex |-> <<>>, bgTex |-> "placeholder",
           u_mode |-> 0, out |-> <<"blank">>]

\* the record of an iteration: the exit it took (idle, gate, nomask,
\* composite), what the segmenter did (none, skipped, threw, nomask, ok), the
\* selection, frame and size it read, the skip interval it gated on, the mask
\* it was given, which storage it allocated, the motion estimate of its
\* blend (-1 where it did not blend), whether it uploaded a background image,
\* how many such uploads its run has seen (the Composite iterations in a
\* row, up to this one, that read the same selection), whether the
\* iteration before it took the passthrough gate, and how many iterations past
\* the gate in a row, up to this one, have skipped segmentation, and the
\* clock reading at the start of its segmentation (0 where it made none)
NoIter == [kind |-> "start", seg |-> "none", bg |-> "none", up |-> "null",
           w |-> 0, h |-> 0, frame |-> 0, skip |-> 0, realloc |-> FALSE,
           maskRealloc |-> FALSE, raw |-> <<>>, firstOk |-> FALSE, segTime |-> 0,
           diff |-> -1, bgUpload |-> FALSE, runUps |-> 0, afterGate |-> FALSE,
           skipRun |-> 0, now |-> 0]

\* The environment of a run is fixed at its start.  It says which latencies the
\* clock can measure, which masks the segmenter can return and whether its
\* calls can fail, how many iterations past the gate the run is followed for,
\* whether the user (background tiles, uploads) and the camera (size changes,
\* new frames, pauses) stay active, whether RecordScreen can unmount, and what
\* the machine can load (the MediaPipe runtime, the GPU and CPU delegates).
\* Where user and camera are not active, the user selects one background and
\* the camera starts once.  The moments at which the awaits of the segmenter
\* initialization resolve, images finish loading and RecordScreen renders are
\* free in every run.
\* a run in which the user keeps changing the background
UserEnv == [latencies |-> WideLatencies, first |-> Masks, masks |-> Masks,
            fails |-> TRUE, maxFrames |-> MaxFrames,
            user |-> TRUE, camera |-> FALSE, unmount |-> FALSE,
            runtime |-> "ok", delegates |-> {"GPU", "CPU"}]
\* a run in which the camera renegotiates, decodes new frames and pauses
CameraEnv == [latencies |-> WideLatencies, first |-> Masks, masks |-> Masks,
              fails |-> TRUE, maxFrames |-> MaxFrames,
              user |-> FALSE, camera |-> TRUE, unmount |-> FALSE,
              runtime |-> "ok", delegates |-> {"GPU", "CPU"}]
\* a long run against a synthetic segmenter of fixed latency l
FixedEnv(l) == [latencies |-> {l}, first |-> {MaskHalf}, masks |-> {MaskHalf},
                fails |-> TRUE, maxFrames |-> MaxLoadFrames,
                user |-> FALSE, camera |-> FALSE, unmount |-> FALSE,
                runtime |-> "ok", delegates |-> {"GPU", "CPU"}]
\* a long run against a segmenter that never fails, whose first mask is a and
\* whose every later mask is b
StepEnv(a, b) == [latencies |-> {2}, first |-> {a}, masks |-> {b},
                  fails |-> FALSE, maxFrames |-> MaxLoadFrames,
                  user |-> FALSE, camera |-> FALSE, unmount |-> FALSE,
                  runtime |-> "ok", delegates |-> {"GPU", "CPU"}]
\* a short run in which RecordScreen can unmount at any moment, on a machine
\* where the MediaPipe runtime loads (rt = "ok"), its import fails ("none") or
\* its wasm files fail to load ("nofiles"), and where the delegates in ds can
\* be created
LifeEnv(rt, ds) == [latencies |-> {2}, first |-> {MaskHalf}, masks |-> {MaskHalf},
                    fails |-> TRUE, maxFrames |-> MaxFrames,
                    user |-> FALSE, camera |-> FALSE, unmount |-> TRUE,
                    runtime |-> rt, delegates |-> ds]
Envs == {UserEnv, CameraEnv, LifeEnv("none", {}), LifeEnv("nofiles", {})}
          \cup {LifeEnv("ok", ds) : ds \in SUBSET {"GPU", "CPU"}}
          \cup {FixedEnv(l) : l \in FixedLatencies}
          \cup {StepEnv(a, b) : a, b \in StepMasks}
\* what a call of the segmenter can return in environment e, given whether a
\* mask has been returned before
CallResults(e, ok) ==
  LET masks == IF ok THEN e.masks ELSE e.first
  IN IF e.fails THEN SegResults(masks) ELSE OkResults(masks)

\* every variable of the page but BlendedMask, the frame counter and the load
\* statistics
PageBase ==
  /\ env \in Envs
  /\ ver \in {1, 2}
  /\ initPc = "import"
  /\ segmenterRef = FALSE
  /\ segmenterReady = FALSE
  /\ segmenterError = FALSE
  /\ selectedBg = "none"
  /\ uploadedImage = "null"
  /\ bgImages = {}
  /\ videoState = "paused"
  /\ videoDims = <<0, 0>>
  /\ videoFrame = 1
  /\ selectedBgRef = "none"
  /\ segmenterReadyRef = FALSE
  /\ uploadedImageRef = "null"
  /\ lastDims = <<0, 0>>
  /\ lastBgKey = "null"
  /\ lastTime = 0
  /\ maskAlloc = <<0, 0>>
  /\ hasMask = FALSE
  /\ gl = InitGL
  /\ it = NoIter
  /\ okEver = FALSE
  /\ compEver = FALSE
  /\ measCount = 0
  /\ webgl2 \in (IF env.unmount THEN BOOLEAN ELSE {TRUE})
  /\ renderer = webgl2
  /\ glLive = (IF webgl2 THEN GpuObjects ELSE {})
  /\ animFrame = webgl2
  /\ pendingFrames = (IF webgl2 THEN 1 ELSE 0)
  /\ cancelled = FALSE
  /\ attempts = <<>>
  /\ segClosed = 0
  /\ mounted = TRUE
  /\ tearLog = <<>>
  /\ recScreen = RecMounted
  /\ app = AppMounted

\* every variable of the page but BlendedMask
PageRest ==
  /\ PageBase
  /\ frameCount = 0
  /\ avgFrameTime = InitAvg(ver)
  /\ skipInterval = InitSkip(ver)

PageInit == PageRest /\ blendMask = <<>>

\* the page, with no upload request under way
Init == PageInit /\ http = NoRequest

(***************************************************************************)
(* useSegmenter/init: one step per await.                                  *)
(***************************************************************************)
\* an init that creates the CPU segmenter whatever the GPU attempt gave
InitTargetBothBackends(pc, ok) ==
  IF pc = "import" THEN (IF ok THEN "fileset" ELSE "failed")
  ELSE IF pc = "fileset" THEN (IF ok THEN "gpu" ELSE "failed")
  ELSE IF pc = "gpu" THEN "cpu"
  ELSE (IF ok THEN "ready" ELSE "failed")

\* where init goes from an await that resolved (ok) or rejected
InitTarget(pc, ok) ==
  IF pc = "import" THEN (IF ok THEN "fileset" ELSE "failed")
  ELSE IF pc = "fileset" THEN (IF ok THEN "gpu" ELSE "failed")
  ELSE IF pc = "gpu" THEN (IF ok THEN "ready" ELSE "cpu")
  ELSE (IF ok THEN "ready" ELSE "failed")

\* the delegate of the createFromOptions call awaited at pc
Delegate(pc) == IF pc = "gpu" THEN "GPU" ELSE "CPU"

\* whether the await at pc resolves (or rejects) in environment e
Resolves(e, pc) ==
  IF pc = "import" THEN e.runtime # "none"
  ELSE IF pc = "fileset" THEN e.runtime = "ok"
  ELSE Delegate(pc) \in e.delegates

\* an init that stores the segmenter without looking at cancelled
InitCompletesUnchecked(c) == "ready"

\* if (cancelled) { segmenter.close(); return; }  else store it and report Ready
InitCompletes(c) == IF c THEN "closed" ELSE "ready"

\* the instances createFromOptions has returned, and those of them not closed
Created == Cardinality({i \in 1..Len(attempts) : attempts[i].r = "ok"})
Open == Created - segClosed

SegmenterInit ==
  /\ initPc \in {"import", "fileset", "gpu", "cpu"}
  /\ LET ok == Resolves(env, initPc)
           to == InitTarget(initPc, ok)
           settled == IF initPc \in {"gpu", "cpu"}
                      THEN [attempts EXCEPT ![Len(attempts)].r =
                                              IF ok THEN "ok" ELSE "failed"]
                      ELSE attempts
           end == IF to = "ready" THEN InitCompletes(cancelled) ELSE to
       IN
       /\ attempts' = IF to \in {"gpu", "cpu"}
                      THEN Append(settled, [d |-> Delegate(to), r |-> "pending"])
                      ELSE settled
       /\ initPc' = end
       /\ segmenterRef' = (end = "ready")
       /\ segmenterReady' = (end = "ready")
       /\ segClosed' = IF end = "closed" THEN segClosed + 1 ELSE segClosed
       /\ segmenterError' = (end = "failed" /\ ~cancelled)
  /\ UNCHANGED <<http, recScreen, app, env, ver, glVars, lifeVars, cancelled, uiVars, videoVars, refVars,
                 pumpVars>>

(***************************************************************************)
(* RecordScreen: render, user and media events.                            *)
(***************************************************************************)
\* a render of RecordScreen: useBackgroundEffect copies its arguments into refs
Render ==
  /\ mounted
  /\ <<selectedBgRef, segmenterReadyRef, uploadedImageRef>>
       # <<selectedBg, segmenterReady, uploadedImage>>
  /\ selectedBgRef' = selectedBg
  /\ segmenterReadyRef' = segmenterReady
  /\ uploadedImageRef' = uploadedImage
  /\ UNCHANGED <<http, recScreen, app, env, ver, glVars, lifeVars, segVars, uiVars, videoVars, pumpVars>>

\* the user clicks a background tile: setSelectedBg(bg.id)
SelectBg ==
  /\ mounted
  /\ env.user \/ selectedBg = "none"
  /\ \E b \in BgIds \ {"upload"} :
       /\ b # selectedBg
       /\ selectedBg' = b
  /\ UNCHANGED <<http, recScreen, app, env, ver, glVars, lifeVars, segVars, uploadedImage, bgImages, videoVars, refVars, pumpVars>>

\* handleImageUpload, at img.onload: setUploadedImage(img); setSelectedBg("upload")
ImageUpload ==
  /\ mounted
  /\ env.user
  /\ \E src \in Blobs :
       /\ uploadedImage # src
       /\ uploadedImage' = src
  /\ selectedBg' = "upload"
  /\ UNCHANGED <<http, recScreen, app, env, ver, glVars, lifeVars, segVars, bgImages, videoVars, refVars, pumpVars>>

\* the preload effect, at img.onload: bgImagesRef.current[bg.id] = img
ImageLoaded ==
  /\ \E id \in ImageIds \ bgImages : bgImages' = bgImages \cup {id}
  /\ UNCHANGED <<http, recScreen, app, env, ver, glVars, lifeVars, segVars, selectedBg, uploadedImage, videoVars, refVars, pumpVars>>

\* the camera: play() starts the stream, the track renegotiates its size, a new
\* frame is decoded, the element pauses, the stream ends
VideoEvent ==
  /\ \/ /\ videoState = "paused"
        /\ videoState' = "playing"
        /\ \E d \in VideoSizes : videoDims' = d
        /\ UNCHANGED videoFrame
     \/ /\ env.camera
        /\ videoState = "playing"
        /\ \E d \in VideoSizes \ {videoDims} : videoDims' = d
        /\ UNCHANGED <<videoState, videoFrame>>
     \/ /\ env.camera
        /\ videoState = "playing"
        /\ \E f \in Frames \ {videoFrame} : videoFrame' = f
        /\ UNCHANGED <<videoState, videoDims>>
     \/ /\ env.camera
        /\ videoState = "playing"
        /\ videoState' = "paused"
        /\ UNCHANGED <<videoDims, videoFrame>>
     \/ /\ env.camera
        /\ videoState = "playing"
        /\ videoState' = "ended"
        /\ UNCHANGED <<videoDims, videoFrame>>
  /\ UNCHANGED <<http, recScreen, app, env, ver, glVars, lifeVars, segVars, uiVars, refVars, pumpVars>>

(***************************************************************************)
(* The pump: one call of draw().                                           *)
(***************************************************************************)
\* a pump that uploads the video frame only when it reallocates
VideoUploadOnResize(g, realloc, w, h, frame) ==
  IF realloc
  THEN [g EXCEPT !.canvas = <<w, h>>, !.viewport = <<w, h>>,
                 !.videoAlloc = <<w, h>>, !.videoTex = frame]
  ELSE g

\* the resize block and the per-frame texSubImage2D of the video texture
VideoUpload(g, realloc, w, h, frame) ==
  IF realloc
  THEN [g EXCEPT !.canvas = <<w, h>>, !.viewport = <<w, h>>,
                 !.videoAlloc = <<w, h>>, !.videoTex = frame]
  ELSE [g EXCEPT !.videoTex = frame]

\* an exit that returns without scheduling
RequestFrameDropped(queued) == queued

\* animFrameRef.current = requestAnimationFrame(draw): one more callback queued
RequestFrame(queued) == queued + 1

\* uniform1i(u_mode, mode); drawArrays
DrawCall(g, mode) == [g EXCEPT !.u_mode = mode, !.out = FragColor(mode, g)]

\* mask uploads that allocate storage every time
MaskUploadAllocating(g, alloc, mask, blend) ==
  [g EXCEPT !.rawMaskAlloc = SegDims, !.rawMaskTex = mask,
            !.rawMaskAllocs = @ + 1,
            !.maskTexAlloc = SegDims, !.maskTex = blend,
            !.maskTexAllocs = @ + 1]

\* the raw-mask and blended-mask uploads after a successful segmentation:
\* texImage2D while maskAllocRef differs from SEG_WIDTH x SEG_HEIGHT, else
\* texSubImage2D; maskAllocRef is written after the second of the two tests
MaskUpload(g, alloc, mask, blend) ==
  IF alloc # SegDims
  THEN [g EXCEPT !.rawMaskAlloc = SegDims, !.rawMaskTex = mask,
                 !.rawMaskAllocs = @ + 1,
                 !.maskTexAlloc = SegDims, !.maskTex = blend,
                 !.maskTexAllocs = @ + 1]
  ELSE [g EXCEPT !.rawMaskTex = mask, !.maskTex = blend]

\* the iteration that finds no video element, or the video paused or ended
DrawIdle ==
  /\ it' = [NoIter EXCEPT !.kind = "idle"]
  /\ animFrame' = TRUE
  /\ pendingFrames' = RequestFrame(pendingFrames - 1)
  /\ UNCHANGED <<lastDims, lastBgKey, frameCount, maskAlloc, hasMask, blendMask,
                 avgFrameTime, skipInterval, gl, okEver, compEver, measCount,
                 lastTime>>

\* a gate exit taken after the frame counter was raised
DrawGateCounting(g1, rec) ==
  /\ gl' = DrawCall(g1, 0)
  /\ it' = [rec EXCEPT !.kind = "gate"]
  /\ animFrame' = TRUE
  /\ pendingFrames' = RequestFrame(pendingFrames - 1)
  /\ frameCount' = frameCount + 1
  /\ UNCHANGED <<lastBgKey, maskAlloc, hasMask, blendMask,
                 avgFrameTime, skipInterval, okEver, compEver, measCount,
                 lastTime>>

\* a gate exit that drops the has-mask flag
DrawGateForgetsMask(g1, rec) ==
  /\ gl' = DrawCall(g1, 0)
  /\ it' = [rec EXCEPT !.kind = "gate"]
  /\ animFrame' = TRUE
  /\ pendingFrames' = RequestFrame(pendingFrames - 1)
  /\ hasMask' = FALSE
  /\ UNCHANGED <<lastBgKey, frameCount, maskAlloc, blendMask,
                 avgFrameTime, skipInterval, okEver, compEver, measCount,
                 lastTime>>

\* the iteration that takes the passthrough gate
DrawGate(g1, rec) ==
  /\ gl' = DrawCall(g1, 0)
  /\ it' = [rec EXCEPT !.kind = "gate"]
  /\ animFrame' = TRUE
  /\ pendingFrames' = RequestFrame(pendingFrames - 1)
  /\ UNCHANGED <<lastBgKey, frameCount, maskAlloc, hasMask, blendMask,
                 avgFrameTime, skipInterval, okEver, compEver, measCount,
                 lastTime>>

\* the iteration past the gate: skip counter, segmentation, blend, load
\* controller, then the no-mask passthrough or the composite draw.  The
\* timestamp the first version passes to segmentForVideo feeds nothing but
\* the call, whose result is chosen freely here.  BACKGROUNDS has no entry of
\* type "blur", so that branch of the background upload is dead.
DrawActive(g1, rec, res, segTime) ==
  LET fc == frameCount + 1
      seg == ShouldSegment(fc, skipInterval)
      got == MaskAcquired(seg, res)
      mask == IF got THEN res.mask ELSE <<>>
      blend == IF got THEN TemporalBlend(blendMask, mask, ver) ELSE blendMask
      g2 == IF got THEN MaskUpload(g1, maskAlloc, mask, blend) ELSE g1
      has == hasMask \/ got
      avg == IF seg THEN LoadAvg(avgFrameTime, segTime) ELSE avgFrameTime
      bgu == BgUpload(rec.bg, uploadedImageRef, bgImages, lastBgKey, g2.bgTex)
      g3 == [g2 EXCEPT !.bgTex = bgu.tex]
      ups == IF has /\ bgu.up THEN 1 ELSE 0
      sameRun == has /\ it.kind = "composite" /\ it.bg = rec.bg /\ it.up = rec.up
  IN
  /\ frameCount' = fc
  /\ blendMask' = blend
  /\ maskAlloc' = IF got THEN SegDims ELSE maskAlloc
  /\ hasMask' = has
  /\ avgFrameTime' = avg
  /\ skipInterval' = IF seg THEN LoadSkip(avg, skipInterval, ver) ELSE skipInterval
  /\ measCount' = IF seg THEN measCount + 1 ELSE measCount
  /\ lastTime' = IF seg /\ ver = 1
                 THEN Timestamp(SteadyNow(measCount), lastTime) ELSE lastTime
  /\ okEver' = (okEver \/ got)
  /\ IF ~has
     THEN /\ gl' = DrawCall(g2, 0)
          /\ UNCHANGED <<lastBgKey, compEver>>
     ELSE /\ gl' = DrawCall(g3, 1)
          /\ lastBgKey' = bgu.key
          /\ compEver' = TRUE
  /\ it' = [rec EXCEPT !.kind = IF has THEN "composite" ELSE "nomask",
                       !.seg = IF ~seg THEN "skipped" ELSE res.r,
                       !.maskRealloc = (got /\ maskAlloc # SegDims),
                       !.raw = mask,
                       !.skip = skipInterval,
                       !.firstOk = (got /\ ~okEver),
                       !.diff = IF got /\ HasPrev(blendMask, mask)
                                THEN MotionDiff(mask, blendMask) ELSE -1,
                       !.segTime = IF seg THEN segTime ELSE 0,
                       !.bgUpload = (has /\ bgu.up),
                       !.runUps = IF sameRun THEN it.runUps + ups ELSE ups,
                       !.skipRun = IF seg THEN 0 ELSE it.skipRun + 1,
                       !.now = IF seg THEN SteadyNow(measCount) ELSE 0]
  /\ animFrame' = TRUE
  /\ pendingFrames' = RequestFrame(pendingFrames - 1)

\* the browser runs a pending callback, which leaves the queue
Draw ==
  /\ pendingFrames > 0
  /\ frameCount < env.maxFrames
  /\ IF NoFrame(videoState)
     THEN DrawIdle
     ELSE LET w == FrameW(videoDims)
              h == FrameH(videoDims)
              realloc == NeedsRealloc(lastDims, w, h)
              g1 == VideoUpload(gl, realloc, w, h, videoFrame)
              rec == [NoIter EXCEPT !.bg = selectedBgRef, !.up = uploadedImageRef, !.w = w, !.h = h,
                                    !.frame = videoFrame, !.realloc = realloc,
                                    !.afterGate = (it.kind = "gate")]
          IN /\ lastDims' = IF realloc THEN <<w, h>> ELSE lastDims
             /\ IF PassthroughGate(selectedBgRef, segmenterReadyRef, segmenterRef)
                THEN DrawGate(g1, rec)
                ELSE \E res \in CallResults(env, okEver), segTime \in env.latencies :
                       DrawActive(g1, rec, res, segTime)
  /\ UNCHANGED <<http, recScreen, app, env, ver, glVars, lifeVars, segVars, uiVars, videoVars, refVars>>

(***************************************************************************)
(* RecordScreen unmounts: React detaches the element refs and runs the     *)
(* effects' cleanups in the order the hooks were called (useSegmenter,     *)
(* then useBackgroundEffect, then the camera effect), one after the other  *)
(* in one task.                                                            *)
(***************************************************************************)
\* useSegmenter cleanup: close and clear the instance in segmenterRef
SegmenterCleanup(ref) == IF ref THEN <<"close">> ELSE <<>>

\* cancelAnimationFrame(animFrameRef.current): is the callback still pending
CancelFrame(pending) == FALSE

\* useBackgroundEffect cleanup; the effect returned none if it got no context
EffectCleanup(ctx, pending, r) ==
  IF ~ctx THEN <<>>
  ELSE (IF pending THEN <<"cancelAnimationFrame">> ELSE <<>>)
       \o (IF r THEN <<"deleteProgram", "deleteBuffer", "deleteTexture",
                       "deleteVertexArray">>
                 ELSE <<>>)

Unmount ==
  /\ env.unmount
  /\ mounted
  /\ mounted' = FALSE
  /\ videoState' = "null"
  /\ cancelled' = TRUE
  /\ segClosed' = IF segmenterRef THEN segClosed + 1 ELSE segClosed
  /\ segmenterRef' = FALSE
  /\ animFrame' = IF webgl2 /\ animFrame THEN CancelFrame(animFrame) ELSE animFrame
  /\ pendingFrames' = IF webgl2 /\ animFrame THEN pendingFrames - 1 ELSE pendingFrames
  /\ renderer' = FALSE
  /\ glLive' = IF webgl2 /\ renderer THEN {} ELSE glLive
  /\ tearLog' = SegmenterCleanup(segmenterRef) \o EffectCleanup(webgl2, animFrame, renderer)
  /\ UNCHANGED <<http, recScreen, app, env, ver, webgl2, initPc, segmenterReady, segmenterError, attempts,
                 uiVars, videoDims, videoFrame, refVars, lastDims, lastBgKey,
                 frameCount, maskAlloc, hasMask, blendMask, avgFrameTime,
                 skipInterval, gl, it, okEver, compEver, measCount, lastTime>>

Next == SegmenterInit \/ Render \/ SelectBg \/ ImageUpload \/ ImageLoaded
          \/ VideoEvent \/ Draw \/ Unmount

Spec == Init /\ [][Next]_vars

\* the upload server alone, the page at rest
UploadInit ==
  /\ PageInit
  /\ env = UserEnv /\ ver = 2
  /\ \E r \in Requests, p \in BOOLEAN : http = Arrives(r, p)
UploadNext == MulterSingle \/ UploadHandler \/ ErrorMiddleware
UploadSpec == UploadInit /\ [][UploadNext]_vars

(***************************************************************************)
(* The blend block of draw() alone (lines 1750-1768), applied to masks of  *)
(* any length after any history: the pump itself feeds it masks of         *)
(* SEG_WIDTH x SEG_HEIGHT cells only.                                      *)
(***************************************************************************)
\* masks of the segmentation size and of twice that size
AnyMasks == StepMasks \cup {m \o m : m \in StepMasks}
BlendInit ==
  /\ PageRest
  /\ env = StepEnv(MaskHalf, MaskHalf)
  /\ blendMask \in {<<>>} \cup AnyMasks
  /\ http = NoRequest
\* const prev = blendMaskRef.current; ... blend[i] = ...
BlendApply ==
  /\ measCount < MaxBlends
  /\ \E mask \in AnyMasks :
       /\ blendMask' = TemporalBlend(blendMask, mask, ver)
       /\ it' = [NoIter EXCEPT !.kind = "blend", !.seg = "ok", !.raw = mask,
                               !.diff = IF HasPrev(blendMask, mask)
                                        THEN MotionDiff(mask, blendMask) ELSE -1]
  /\ measCount' = measCount + 1
  /\ UNCHANGED <<http, recScreen, app, env, ver, glVars, lifeVars, segVars, uiVars, videoVars,
                 refVars, lastDims, lastBgKey, frameCount, maskAlloc, hasMask,
                 avgFrameTime, skipInterval, gl, okEver, compEver, animFrame,
                 pendingFrames, lastTime>>
BlendSpec == BlendInit /\ [][BlendApply]_vars

(***************************************************************************)
(* The skip gate and the load controller of draw() alone (lines 1725-1728  *)
(* and 1781-1784), from any frame counter, skip interval and average.      *)
(***************************************************************************)
\* averages from 0 to MaxAvg ms
AvgGrid == {k * AvgScale : k \in 0..MaxAvg}
LoadInit ==
  /\ PageBase
  /\ env = UserEnv
  /\ blendMask = <<>>
  /\ frameCount \in 0..(StartFrames - 1)
  /\ avgFrameTime \in AvgGrid
  /\ skipInterval \in 1..MaxSkip(ver)
  /\ http = NoRequest
\* frameCountRef.current++; shouldSegment; ... avg; skipIntervalRef update
GateApply ==
  /\ measCount < MaxGateCalls
  /\ \E segTime \in env.latencies :
       LET fc == frameCount + 1
           seg == ShouldSegment(fc, skipInterval)
           avg == IF seg THEN LoadAvg(avgFrameTime, segTime) ELSE avgFrameTime
       IN /\ frameCount' = fc
          /\ avgFrameTime' = avg
          /\ skipInterval' = IF seg THEN LoadSkip(avg, skipInterval, ver)
                              ELSE skipInterval
          /\ measCount' = IF seg THEN measCount + 1 ELSE measCount
          /\ it' = [NoIter EXCEPT !.kind = "active",
                                  !.seg = IF seg THEN "nomask" ELSE "skipped",
                                  !.skip = skipInterval,
                                  !.segTime = IF seg THEN segTime ELSE 0,
                                  !.skipRun = IF seg THEN 0 ELSE it.skipRun + 1]
  /\ UNCHANGED <<http, recScreen, app, env, ver, glVars, lifeVars, segVars, uiVars, videoVars,
                 refVars, lastDims, lastBgKey, maskAlloc, hasMask, blendMask,
                 gl, okEver, compEver, animFrame, pendingFrames, lastTime>>
LoadSpec == LoadInit /\ [][GateApply]_vars

(***************************************************************************)
(* The timestamp rule of the first version alone (lines 340-342, 349),     *)
(* under a clock that may stand still or run backwards between calls.      *)
(***************************************************************************)
ClockReadings == 0..MaxClock
TimeInit == PageInit /\ env = UserEnv /\ ver = 1 /\ http = NoRequest
\* const timestamp = ...; lastTimeRef.current = timestamp; segmentForVideo(.., timestamp)
TimeApply ==
  /\ measCount < MaxStamps
  /\ \E segStart \in ClockReadings :
       /\ lastTime' = Timestamp(segStart, lastTime)
       /\ it' = [NoIter EXCEPT !.kind = "active", !.seg = "nomask",
                               !.now = segStart]
  /\ measCount' = measCount + 1
  /\ UNCHANGED <<http, recScreen, app, env, ver, glVars, lifeVars, segVars, uiVars, videoVars,
                 refVars, lastDims, lastBgKey, frameCount, maskAlloc, hasMask,
                 blendMask, avgFrameTime, skipInterval, gl, okEver, compEver,
                 animFrame, pendingFrames>>
TimeSpec == TimeInit /\ [][TimeApply]_vars

\* the recording of RecordScreen alone, the pump at rest
RecordInit == PageInit /\ env = UserEnv /\ ver = 2 /\ http = NoRequest
RecordNext == CameraReady \/ StartCountdown \/ CountdownTick \/ TimerTick
                \/ StopClick \/ RecorderStopped \/ Retake
RecordSpec == RecordInit /\ [][RecordNext]_vars

\* App's screens and upload alone
AppInit == PageInit /\ env = UserEnv /\ ver = 2 /\ http = NoRequest
AppNext == Navigate \/ HandleVideoReady \/ HandleEmail \/ XhrProgress \/ XhrLoad
             \/ XhrError \/ SuccessTimeout \/ HandleReset
AppSpec == AppInit /\ [][AppNext]_vars

(***************************************************************************)
(* Vocabulary of the properties.                                           *)
(***************************************************************************)
\* this step is a call of draw(): nothing else writes the iteration record or
\* the frame counter, and a call that changes neither changes nothing
Pumped == it' # it \/ frameCount' # frameCount
\* the iteration reached a draw call
Drawn(r) == r.kind \in {"gate", "nomask", "composite"}
\* the iteration passed the gate (background selected, segmenter ready)
PastGate(r) == r.kind \in {"nomask", "composite"}
\* the iteration called the segmenter
Invoked(r) == r.seg \in {"threw", "nomask", "ok"}
\* the passthrough output of an iteration: its own video frame at its own size
VideoOut(r) == <<"video", r.frame, <<r.w, r.h>>>>
\* the bounds of the skip interval, as the two versions state them
SkipMax == IF ver = 1 THEN 4 ELSE 2
SkipStart == IF ver = 1 THEN 2 ELSE 1

(***************************************************************************)
(* C1: until a segmenter invocation has returned a mask every draw is in   *)
(* Passthrough mode and shows the iteration's own frame; the iteration of  *)
(* the first successful segmentation is the first Composite draw, and      *)
(* there BlendedMask (and the blended-mask texture) equals that            *)
(* iteration's RawMask cell for cell.                                      *)
(***************************************************************************)
C1_FirstMaskStep ==
  Pumped =>
    /\ (~okEver' /\ Drawn(it')) => (gl'.u_mode = 0 /\ gl'.out = VideoOut(it'))
    /\ (~okEver /\ okEver') =>
         /\ it'.seg = "ok" /\ it'.raw \in env.first
         /\ it'.kind = "composite" /\ gl'.u_mode = 1 /\ ~compEver
         /\ blendMask' = it'.raw
         /\ gl'.maskTex = it'.raw /\ gl'.rawMaskTex = it'.raw
C1_FirstMask == [][C1_FirstMaskStep]_vars
\* the first mask arrives in the third active iteration or later
C1_Witness == it.firstOk /\ frameCount >= 3 /\ it.kind = "composite"

(***************************************************************************)
(* C2: once segmenter initialization has failed, segmenterReady is false,  *)
(* no instance is held, the segmenter has never been invoked, and every    *)
(* iteration that drew took the passthrough gate with u_mode = 0, whatever *)
(* background is selected.                                                 *)
(***************************************************************************)
C2_InitFailure ==
  initPc = "failed" =>
    /\ ~segmenterReady /\ ~segmenterReadyRef /\ ~segmenterRef
    /\ measCount = 0 /\ ~okEver /\ frameCount = 0
    /\ it.kind \in {"start", "idle", "gate"} /\ it.seg = "none"
    /\ gl.u_mode = 0
    /\ Drawn(it) => gl.out = VideoOut(it)
\* a gate iteration with a background selected after both backends failed
C2_Witness ==
  initPc = "failed" /\ segmenterError /\ it.kind = "gate" /\ it.bg # "none"

(***************************************************************************)
(* C3: an iteration that read the selection "none" and drew did so in      *)
(* Passthrough mode, its output being the video frame it uploaded, whether *)
(* or not the segmenter is ready or a mask exists.                         *)
(***************************************************************************)
C3_NonePassthrough ==
  (Drawn(it) /\ it.bg = "none") =>
    /\ it.kind = "gate" /\ it.seg = "none"
    /\ gl.u_mode = 0
    /\ gl.videoTex = it.frame
    /\ gl.out = VideoOut(it)
\* "none" read with the segmenter ready, masks acquired and an image in the
\* background texture
C3_Witness ==
  /\ Drawn(it) /\ it.bg = "none"
  /\ segmenterReadyRef /\ segmenterRef /\ hasMask
  /\ gl.bgTex # "placeholder" /\ gl.maskTex # <<>>

(***************************************************************************)
(* C4: an iteration whose segmenter call threw or returned no confidence   *)
(* mask leaves BlendedMask, both mask textures, the mask allocation and    *)
(* the has-mask flag as they were, draws (Composite with the old masks if  *)
(* a mask was ever acquired, Passthrough otherwise), re-arms the frame     *)
(* callback and raises no error.                                           *)
(***************************************************************************)
C4_FailedCallStep ==
  (Pumped /\ it'.seg \in {"threw", "nomask"}) =>
    /\ blendMask' = blendMask /\ hasMask' = hasMask /\ maskAlloc' = maskAlloc
    /\ gl'.rawMaskTex = gl.rawMaskTex /\ gl'.maskTex = gl.maskTex
    /\ gl'.rawMaskAlloc = gl.rawMaskAlloc /\ gl'.maskTexAlloc = gl.maskTexAlloc
    /\ it'.kind = IF okEver THEN "composite" ELSE "nomask"
    /\ gl'.u_mode = IF okEver THEN 1 ELSE 0
    /\ okEver =>
         gl'.out = <<"composite", it'.frame, <<it'.w, it'.h>>, gl.maskTex,
                     gl.rawMaskTex, gl'.bgTex>>
    /\ ~okEver => gl'.out = VideoOut(it')
    /\ animFrame'
    /\ segmenterError' = segmenterError /\ segmenterReady' = segmenterReady
C4_FailedCall == [][C4_FailedCallStep]_vars
\* a failed call after a mask had been acquired, drawn with the old masks
C4_Witness ==
  it.seg \in {"threw", "nomask"} /\ it.kind = "composite" /\ blendMask \in Masks

(***************************************************************************)
(* C5: the skip interval is always an integer from 1 to MAX (2 now, 4 in   *)
(* the first version) and one load-controller update moves it by at most 1.*)
(***************************************************************************)
C5_SkipRangeStep ==
  /\ skipInterval' - skipInterval \in {-1, 0, 1}
  /\ measCount' = measCount => skipInterval' = skipInterval
  /\ measCount' \in {measCount, measCount + 1}
C5_SkipRange ==
  /\ skipInterval \in 1..SkipMax
  /\ [][C5_SkipRangeStep /\ skipInterval' \in 1..SkipMax]_vars
\* the interval has just been lowered from its maximum
C5_Witness == Invoked(it) /\ it.skip = SkipMax /\ skipInterval = it.skip - 1

(***************************************************************************)
(* C6: with every measured latency one fixed value above 8 ms, the skip    *)
(* interval after k measurements is min(MAX, start + k): it never          *)
(* decreases, reaches MAX after MAX - start measurements and never exceeds *)
(* it.                                                                     *)
(***************************************************************************)
SlowEnv == Cardinality(env.latencies) = 1 /\ \A l \in env.latencies : l > 8
C6_SlowConverges ==
  SlowEnv =>
    /\ skipInterval = Min(SkipMax, SkipStart + measCount)
    /\ avgFrameTime > 8 * AvgScale
\* the first version has climbed from 2 to 4 and stayed there
C6_Witness == SlowEnv /\ ver = 1 /\ skipInterval = 4 /\ measCount >= 5

(***************************************************************************)
(* C7: with every measured latency one fixed value below 3 ms, the skip    *)
(* interval never goes below 1, is lowered by each measurement that leaves *)
(* the average below 3 until it is 1, and is 1 from the FastSettle-th      *)
(* measurement on.                                                         *)
(***************************************************************************)
FastEnv == Cardinality(env.latencies) = 1 /\ \A l \in env.latencies : l < 3
C7_FastConverges ==
  FastEnv =>
    /\ skipInterval >= 1
    /\ (Invoked(it) /\ avgFrameTime < 3 * AvgScale) =>
         skipInterval = IF it.skip > 1 THEN it.skip - 1 ELSE 1
    /\ measCount >= FastSettle => skipInterval = 1
\* the first version, back at 1 after having been at its maximum
C7_Witness ==
  FastEnv /\ ver = 1 /\ measCount >= FastSettle /\ skipInterval = 1 /\ it.skip = 1

(***************************************************************************)
(* C8: an iteration that finds a background selected and the segmenter     *)
(* ready raises the frame counter by one and calls the segmenter exactly   *)
(* when the raised counter is divisible by the skip interval; once a mask  *)
(* has been acquired it draws in Composite mode with the latest masks,     *)
(* whether or not it segmented.                                            *)
(***************************************************************************)
C8_SkipGateStep ==
  (/\ Pumped
   /\ videoState = "playing"
   /\ selectedBgRef # "none" /\ segmenterReadyRef /\ segmenterRef) =>
    /\ frameCount' = frameCount + 1
    /\ Invoked(it') <=> ((frameCount + 1) % skipInterval = 0)
    /\ ~Invoked(it') <=> it'.seg = "skipped"
    /\ Invoked(it') <=> (measCount' = measCount + 1)
    /\ okEver' =>
         /\ it'.kind = "composite" /\ gl'.u_mode = 1
         /\ gl'.maskTex = blendMask'
         /\ it'.seg = "ok" => gl'.rawMaskTex = it'.raw
         /\ it'.seg # "ok" =>
              /\ gl'.rawMaskTex = gl.rawMaskTex
              /\ gl'.maskTex = gl.maskTex
         /\ gl'.out = <<"composite", it'.frame, <<it'.w, it'.h>>, gl'.maskTex,
                        gl'.rawMaskTex, gl'.bgTex>>
C8_SkipGate == [][C8_SkipGateStep]_vars
\* a skipped iteration under an interval of at least 3, drawn in Composite mode
C8_Witness == it.kind = "composite" /\ it.seg = "skipped" /\ it.skip >= 3

(***************************************************************************)
(* C9: an iteration that has a frame (re)allocates the video texture       *)
(* exactly when its (w,h) differs from the size of the storage allocated   *)
(* last; at its draw the canvas, the viewport and the video storage all    *)
(* have the frame's (w,h), and the next callback is scheduled.             *)
(***************************************************************************)
C9_ResizeStep ==
  (Pumped /\ videoState = "playing") =>
    LET w == IF videoDims[1] = 0 THEN 640 ELSE videoDims[1]
        h == IF videoDims[2] = 0 THEN 480 ELSE videoDims[2]
    IN /\ it'.realloc <=> (gl.videoAlloc # <<w, h>>)
       /\ Drawn(it') /\ it'.w = w /\ it'.h = h
       /\ gl'.videoAlloc = <<w, h>>
       /\ gl'.canvas = <<w, h>>
       /\ gl'.viewport = <<w, h>>
       /\ gl'.out[3] = <<w, h>>
       /\ animFrame'
C9_Resize == [][C9_ResizeStep]_vars
\* a resize in mid-session: storage is reallocated in an iteration that draws
\* with masks acquired at the earlier size
C9_Witness ==
  /\ it.realloc /\ it.kind = "composite" /\ it.seg = "skipped"
  /\ gl.videoAlloc = <<1280, 720>>

(***************************************************************************)
(* C10: of two consecutive iterations past the gate that both skip         *)
(* segmentation and read the same frame, size and background selection,    *)
(* the second draws in the same mode from the same four textures, so its   *)
(* output is identical.                                                    *)
(***************************************************************************)
C10_IdempotentStep ==
  (/\ Pumped
   /\ PastGate(it) /\ it.seg = "skipped"
   /\ PastGate(it') /\ it'.seg = "skipped"
   /\ it'.frame = it.frame /\ it'.w = it.w /\ it'.h = it.h
   /\ it'.bg = it.bg /\ it'.up = it.up) =>
    /\ gl'.u_mode = gl.u_mode
    /\ gl'.videoTex = gl.videoTex
    /\ gl'.maskTex = gl.maskTex
    /\ gl'.rawMaskTex = gl.rawMaskTex
    /\ gl'.bgTex = gl.bgTex
    /\ gl'.out = gl.out
C10_Idempotent == [][C10_IdempotentStep]_vars

(***************************************************************************)
(* C11: the unmount cancels the pending frame callback before it releases  *)
(* anything (the segmenter instance, the GPU program, buffer, textures and *)
(* vertex array); no pump iteration runs once RecordScreen has unmounted;  *)
(* an iteration that draws finds every GPU object alive, and one that      *)
(* calls the segmenter finds an open instance in segmenterRef.             *)
(***************************************************************************)
Releases == {"close", "deleteProgram", "deleteBuffer", "deleteTexture",
             "deleteVertexArray"}
C11_CancelFirst ==
  \A i \in 1..Len(tearLog) :
    (tearLog[i] = "cancelAnimationFrame") =>
      \A j \in 1..(i - 1) : tearLog[j] \notin Releases
C11_TeardownStep ==
  Pumped =>
    /\ mounted
    /\ Drawn(it') => (renderer /\ glLive = GpuObjects)
    /\ Invoked(it') => (segmenterRef /\ Open = 1)
C11_Teardown ==
  /\ [](C11_CancelFirst /\ (~mounted => ~animFrame))
  /\ [][C11_TeardownStep]_vars

(***************************************************************************)
(* C12: whenever the unmount falls relative to the awaits of init, at most *)
(* one segmenter is created and it is closed at most once; after the       *)
(* unmount no created instance is open and segmenterRef is empty; an       *)
(* instance whose creation completes after the unmount is closed in that   *)
(* same step, is not stored, and segmenterReady stays unset.               *)
(***************************************************************************)
C12_ClosedOnceStep ==
  /\ segClosed' \in {segClosed, segClosed + 1}
  /\ (cancelled /\ Created' > Created) =>
       /\ segClosed' = segClosed + 1
       /\ initPc' = "closed"
  /\ cancelled => (~segmenterRef' /\ segmenterReady' = segmenterReady)
C12_ClosedOnceState ==
  /\ Created \in {0, 1} /\ Open \in {0, 1}
  /\ segmenterRef => (mounted /\ Open = 1)
  /\ ~mounted => (cancelled /\ ~segmenterRef /\ Open = 0)
  /\ (mounted /\ Created = 1) => (segmenterRef /\ segmenterReady /\ segClosed = 0)
C12_ClosedOnce == []C12_ClosedOnceState /\ [][C12_ClosedOnceStep]_vars
\* the unmount fell between the start of a creation and its completion
C12_Witness ==
  ~mounted /\ initPc = "closed" /\ Created = 1 /\ segClosed = 1 /\ ~segmenterReady

(***************************************************************************)
(* C13: createFromOptions is called at most twice, first with the GPU      *)
(* delegate and then, only after that attempt has failed, once with the    *)
(* CPU delegate; segmenterError is set only when both attempts failed or   *)
(* the runtime did not load; once Ready or Failed is reported init is at   *)
(* its end and makes no further attempt.                                   *)
(***************************************************************************)
C13_FallbackStep ==
  (segmenterReady \/ segmenterError \/ initPc \in {"ready", "failed", "closed"}) =>
    (attempts' = attempts /\ initPc' = initPc)
C13_FallbackState ==
  /\ Len(attempts) <= 2
  /\ Len(attempts) >= 1 => attempts[1].d = "GPU"
  /\ Len(attempts) = 2 => (attempts[2].d = "CPU" /\ attempts[1].r = "failed")
  /\ segmenterError =>
       \/ Len(attempts) = 2 /\ attempts[1].r = "failed" /\ attempts[2].r = "failed"
       \/ attempts = <<>> /\ env.runtime # "ok"
  /\ segmenterReady => (Created = 1 /\ attempts[Len(attempts)].r = "ok")
  /\ (initPc = "failed" /\ ~cancelled) => segmenterError
C13_Fallback == []C13_FallbackState /\ [][C13_FallbackStep]_vars
\* Ready through the fallback: the GPU attempt failed, the CPU attempt did not
C13_Witness ==
  /\ segmenterReady /\ Len(attempts) = 2
  /\ attempts[1] = [d |-> "GPU", r |-> "failed"]
  /\ attempts[2] = [d |-> "CPU", r |-> "ok"]

(***************************************************************************)
(* C14: segmenterReady and segmenterError are never both set and neither   *)
(* is ever reset; a pump iteration that calls the segmenter finds          *)
(* segmenterReady set (the state and the copy the pump reads) and an open  *)
(* instance in segmenterRef.                                               *)
(***************************************************************************)
C14_StatusStep ==
  /\ segmenterReady => segmenterReady'
  /\ segmenterError => segmenterError'
  /\ (Pumped /\ Invoked(it')) =>
       (segmenterReady /\ segmenterReadyRef /\ segmenterRef /\ Open = 1)
C14_StatusState ==
  /\ ~(segmenterReady /\ segmenterError)
  /\ (~segmenterReady /\ ~segmenterError) => (measCount = 0 /\ ~okEver)
C14_Status == []C14_StatusState /\ [][C14_StatusStep]_vars
\* the segmenter was called on an instance that came from the CPU fallback
C14_Witness ==
  Invoked(it) /\ it.seg = "ok" /\ segmenterReady /\ ~segmenterError /\ Len(attempts) = 2

(***************************************************************************)
(* C15: when getContext("webgl2") returns no context, the effect hands a   *)
(* failure status to RecordScreen, no frame callback is ever pending, no   *)
(* iteration runs, and no GPU object is created or deleted.                *)
(***************************************************************************)
C15_NoContext ==
  ~webgl2 =>
    /\ EffectStatus(webgl2) = "failed"
    /\ ~animFrame /\ ~renderer /\ glLive = {}
    /\ it = NoIter /\ gl = InitGL
    /\ \A i \in 1..Len(tearLog) : tearLog[i] = "close"

(***************************************************************************)
(* C16: a POST /api/upload is answered once; the answer is the success     *)
(* body, carrying the stored file's name and the email, exactly when a     *)
(* video file was stored and the email is local@domain.tld (one at sign    *)
(* that is not first, a dot after it with something on both sides, no      *)
(* blank); every other request is answered 400 with a body holding just an *)
(* error message.                                                          *)
(***************************************************************************)
AtSigns(s) == {i \in 1..Len(s) : s[i] = "@"}
WellFormed(s) ==
  /\ Cardinality(AtSigns(s)) = 1
  /\ \A i \in 1..Len(s) : s[i] # " "
  /\ \E i \in AtSigns(s) :
       /\ i > 1
       /\ \E j \in (i + 2)..(Len(s) - 1) : s[j] = "."
Accepted(r) ==
  /\ r.body = "multipart" /\ r.file = "video"
  /\ r.email.k = "string" /\ WellFormed(r.email.s)
C16_OneResponse ==
  /\ Len(http.res) <= 1
  /\ http.pc = "done" <=> Len(http.res) = 1
  /\ http.pc = "done" =>
       IF Accepted(http.req)
       THEN /\ http.res[1].status = 200
            /\ http.res[1].body.success = TRUE
            /\ http.res[1].body.email = http.req.email.s
            /\ http.res[1].body.filename = "testimonial-1.webm"
            /\ http.disk
       ELSE /\ http.res[1].status = 400
            /\ DOMAIN http.res[1].body = {"error"}
\* a well-formed address sent with a video: stored and acknowledged
C16_Witness ==
  /\ http.pc = "done" /\ http.res[1].status = 200 /\ http.disk
  /\ http.req.email.s = <<"a", "@", "a", ".", "a">>

(***************************************************************************)
(* C17: in every iteration that blends, the motion estimate diff is the    *)
(* mean absolute difference, over every 16th cell, between the RawMask of  *)
(* this iteration and the RawMask of the latest earlier successful         *)
(* segmentation (the content of the raw-mask texture before this           *)
(* iteration's upload).                                                    *)
(***************************************************************************)
C17_MotionStep ==
  (Pumped /\ it'.diff # -1) =>
    /\ Len(gl.rawMaskTex) = Len(it'.raw)
    /\ it'.diff = MotionDiff(it'.raw, gl.rawMaskTex)
C17_Motion == [][C17_MotionStep]_vars

(***************************************************************************)
(* C18: while successive successful segmentations return one and the same  *)
(* RawMask, each blend leaves every cell of BlendedMask at least as close  *)
(* to the raw cell as before and on the same side of it; the motion        *)
(* estimate and globalAlpha never rise; from the BlendSettle-th blend of   *)
(* the repeated mask on the estimate is within the rounding of the stored  *)
(* cells of 0, so globalAlpha is within 6 * RoundOff / Unit of 0.15.       *)
(***************************************************************************)
AlphaFloor == (15 * Unit) \div 100
AlphaCeil == (9 * Unit) \div 10
SameMaskRun == ~env.fails
C18_ConvergesStep ==
  (Pumped /\ it'.diff # -1 /\ gl.rawMaskTex = it'.raw) =>
    /\ \A i \in 1..Len(it'.raw) :
         /\ Abs(blendMask'[i] - it'.raw[i]) <= Abs(blendMask[i] - it'.raw[i])
         /\ blendMask[i] <= it'.raw[i] => blendMask'[i] <= it'.raw[i]
         /\ blendMask[i] >= it'.raw[i] => blendMask'[i] >= it'.raw[i]
    /\ MotionDiff(it'.raw, blendMask') <= it'.diff
    /\ Min(AlphaCeil, AlphaFloor + 6 * MotionDiff(it'.raw, blendMask'))
         <= Min(AlphaCeil, AlphaFloor + 6 * it'.diff)
C18_ConvergesState ==
  (SameMaskRun /\ it.diff # -1 /\ measCount > BlendSettle) =>
    /\ it.diff <= RoundOff
    /\ Min(AlphaCeil, AlphaFloor + 6 * it.diff) - AlphaFloor <= 6 * RoundOff
C18_Converges == []C18_ConvergesState /\ [][C18_ConvergesStep]_vars
\* a run whose first mask differs from the repeated one, past BlendSettle,
\* BlendedMask still short of the raw mask in some cell
C18_Witness ==
  /\ SameMaskRun /\ env.first # env.masks
  /\ it.diff # -1 /\ measCount > BlendSettle
  /\ \E i \in 1..Len(it.raw) : blendMask[i] # it.raw[i]

(***************************************************************************)
(* C19: in every blend globalAlpha is min(0.9, 0.15 + 6 * diff), lies in   *)
(* [0.15, 0.9] and is 0.9 once diff is at least 0.125; every cell's local  *)
(* weight lies between globalAlpha and the boundary weight (1.0 now, 0.97  *)
(* in the first version); a cell whose raw value is 0.5 is blended with    *)
(* exactly the boundary weight, whatever globalAlpha is.                   *)
(***************************************************************************)
BoundaryAlpha == IF ver = 1 THEN (97 * Unit) \div 100 ELSE Unit
C19_WeightsStep ==
  (Pumped /\ it'.diff # -1) =>
    LET ga == GlobalAlpha(it'.diff) IN
    /\ ga = Min(AlphaCeil, AlphaFloor + 6 * it'.diff)
    /\ AlphaFloor <= ga /\ ga <= AlphaCeil
    /\ it'.diff * 8 >= Unit => ga = AlphaCeil
    /\ \A i \in 1..Len(it'.raw) :
         LET la == LocalAlpha(ga, Uncertainty(it'.raw[i]), ver) IN
         /\ ga <= la /\ la <= BoundaryAlpha
         /\ blendMask'[i] =
              (it'.raw[i] * la + blendMask[i] * (Unit - la) + Unit \div 2) \div Unit
         /\ it'.raw[i] * 2 = Unit =>
              /\ la = BoundaryAlpha
              /\ blendMask'[i] =
                   (it'.raw[i] * BoundaryAlpha + blendMask[i] * (Unit - BoundaryAlpha)
                      + Unit \div 2) \div Unit
C19_Weights == [][C19_WeightsStep]_vars
\* the first version blends a mask with boundary cells at a saturated
\* globalAlpha
C19_Witness ==
  /\ ver = 1 /\ it.diff # -1 /\ it.diff * 8 >= Unit
  /\ \E i \in 1..Len(it.raw) : it.raw[i] * 2 = Unit /\ blendMask[i] # it.raw[i]

(***************************************************************************)
(* C20: the draw call of an iteration reads the textures as this           *)
(* iteration's uploads have left them: the video texture holds the frame   *)
(* it read, after a successful segmentation the raw-mask texture holds its *)
(* RawMask and the blended-mask texture the new BlendedMask; that          *)
(* BlendedMask is the blend of this iteration's RawMask into the           *)
(* BlendedMask the latest earlier successful segmentation left, which      *)
(* nothing else changes.                                                   *)
(***************************************************************************)
C20_OrderStep ==
  /\ (Pumped /\ Drawn(it')) =>
       /\ gl'.videoTex = it'.frame
       /\ gl'.out = IF gl'.u_mode = 0
                    THEN <<"video", gl'.videoTex, gl'.viewport>>
                    ELSE <<"composite", gl'.videoTex, gl'.viewport, gl'.maskTex,
                           gl'.rawMaskTex, gl'.bgTex>>
       /\ it'.seg = "ok" =>
            /\ gl'.rawMaskTex = it'.raw
            /\ gl'.maskTex = blendMask'
            /\ blendMask' = TemporalBlend(blendMask, it'.raw, ver)
            /\ gl'.u_mode = 1
  /\ (~Pumped \/ it'.seg # "ok") =>
       /\ blendMask' = blendMask
       /\ gl'.maskTex = gl.maskTex /\ gl'.rawMaskTex = gl.rawMaskTex
  /\ ~Pumped => gl' = gl
C20_Order == [][C20_OrderStep]_vars
\* an iteration that uploaded a new frame, both masks and the background
\* before it drew
C20_Witness ==
  /\ it.kind = "composite" /\ it.seg = "ok" /\ it.diff # -1
  /\ it.frame = 2 /\ gl.videoTex = 2
  /\ gl.bgTex = ImagePixels(it.bg)

(***************************************************************************)
(* C21: every iteration that calls the segmenter, whether the call         *)
(* returned a mask, returned none or threw, sets avgLatency to             *)
(* 0.9 * avgLatency + 0.1 * measured and then raises the skip interval by  *)
(* one if the new average is above 8 and the interval below MAX, otherwise *)
(* lowers it by one if the average is below 3 and the interval above 1,    *)
(* otherwise leaves it.                                                    *)
(***************************************************************************)
C21_LoadStep ==
  (Pumped /\ Invoked(it')) =>
    /\ it'.segTime \in env.latencies
    /\ 10 * avgFrameTime' <= 9 * avgFrameTime + it'.segTime * AvgScale
    /\ 10 * avgFrameTime' > 9 * avgFrameTime + it'.segTime * AvgScale - 10
    /\ skipInterval' =
         IF avgFrameTime' > 8 * AvgScale /\ skipInterval < SkipMax
         THEN skipInterval + 1
         ELSE IF avgFrameTime' < 3 * AvgScale /\ skipInterval > 1
         THEN skipInterval - 1
         ELSE skipInterval
C21_Load == [][C21_LoadStep]_vars
\* a call that threw, measured at 20 ms, raised the interval; the average is
\* not the measurement
C21_Witness ==
  /\ it.seg = "threw" /\ it.segTime = 20 /\ skipInterval = it.skip + 1
  /\ avgFrameTime # 20 * AvgScale /\ measCount >= 2

(***************************************************************************)
(* C22: storage of the raw-mask texture and of the blended-mask texture is *)
(* each allocated exactly once, both in the iteration of the first         *)
(* successful segmentation; every later successful segmentation writes     *)
(* both textures in place and allocates neither again, and no other step   *)
(* allocates.                                                              *)
(***************************************************************************)
C22_AllocOnceStep ==
  /\ (Pumped /\ it'.seg = "ok" /\ ~okEver) =>
       /\ gl'.rawMaskAllocs = gl.rawMaskAllocs + 1
       /\ gl'.maskTexAllocs = gl.maskTexAllocs + 1
       /\ gl'.rawMaskAlloc = SegDims /\ gl'.maskTexAlloc = SegDims
  /\ (Pumped /\ it'.seg = "ok" /\ okEver) =>
       /\ gl'.rawMaskAllocs = gl.rawMaskAllocs
       /\ gl'.maskTexAllocs = gl.maskTexAllocs
       /\ gl'.rawMaskAlloc = gl.rawMaskAlloc /\ gl'.maskTexAlloc = gl.maskTexAlloc
       /\ gl'.rawMaskTex = it'.raw /\ gl'.maskTex = blendMask'
  /\ (~Pumped \/ it'.seg # "ok") =>
       /\ gl'.rawMaskAllocs = gl.rawMaskAllocs
       /\ gl'.maskTexAllocs = gl.maskTexAllocs
C22_AllocOnceState ==
  /\ gl.rawMaskAllocs = (IF okEver THEN 1 ELSE 0)
  /\ gl.maskTexAllocs = (IF okEver THEN 1 ELSE 0)
  /\ gl.rawMaskAlloc = (IF okEver THEN SegDims ELSE <<0, 0>>)
  /\ gl.maskTexAlloc = (IF okEver THEN SegDims ELSE <<0, 0>>)
C22_AllocOnce == []C22_AllocOnceState /\ [][C22_AllocOnceStep]_vars
\* a third successful segmentation wrote new content into storage allocated
\* by the first
C22_Witness ==
  /\ it.seg = "ok" /\ ~it.firstOk /\ it.diff # -1 /\ measCount >= 3
  /\ gl.rawMaskAllocs = 1 /\ gl.maskTexAllocs = 1
  /\ gl.rawMaskTex = it.raw /\ gl.maskTex = blendMask /\ blendMask # it.raw

(***************************************************************************)
(* C23: an iteration uploads an image to the background texture only where *)
(* it draws in Composite mode with a preset or uploaded image selected     *)
(* whose key differs from the key of the last upload, and the key then     *)
(* becomes that image's; nothing else changes the key; over Composite      *)
(* iterations in a row that read the same selection the image is uploaded  *)
(* at most once.                                                           *)
(***************************************************************************)
\* the key of the selection an iteration read
SelKey(r) ==
  IF r.bg \in ImageIds THEN r.bg
  ELSE IF r.bg = "upload" /\ r.up # "null" THEN "upload:" \o r.up
  ELSE "null"
C23_UploadOnceStep ==
  /\ (Pumped /\ it'.bgUpload) =>
       /\ it'.kind = "composite" /\ SelKey(it') # "null"
       /\ SelKey(it') # lastBgKey
       /\ lastBgKey' = SelKey(it')
       /\ it'.bg \in ImageIds => (it'.bg \in bgImages /\ gl'.bgTex = ImagePixels(it'.bg))
       /\ it'.bg = "upload" => gl'.bgTex = it'.up
  /\ (~Pumped \/ ~it'.bgUpload) =>
       (lastBgKey' = lastBgKey /\ gl'.bgTex = gl.bgTex)
C23_UploadOnceState == it.runUps <= 1 /\ (it.bgUpload => it.runUps = 1)
C23_UploadOnce == []C23_UploadOnceState /\ [][C23_UploadOnceStep]_vars
\* a Composite iteration under the uploaded image that uploaded nothing, an
\* earlier iteration of its run having done so
C23_Witness ==
  /\ it.kind = "composite" /\ it.bg = "upload" /\ ~it.bgUpload /\ it.runUps = 1
  /\ lastBgKey = SelKey(it) /\ gl.bgTex = it.up /\ frameCount = 3

(***************************************************************************)
(* C24: after every Composite draw the background texture holds the pixels *)
(* of the source the iteration read as selected: the preset image of that  *)
(* id, or the uploaded image.                                              *)
(***************************************************************************)
\* the pixels of the source an iteration read as selected
SelPixels(r) == IF r.bg \in ImageIds THEN "/backgrounds/" \o r.bg ELSE r.up
C24_Background ==
  it.kind = "composite" => gl.bgTex = SelPixels(it)
\* the same, for iterations that found the selected source loaded
C24_LoadedBackground ==
  (it.kind = "composite" /\ lastBgKey = SelKey(it)) => gl.bgTex = SelPixels(it)

(***************************************************************************)
(* C25: an iteration that finds no video element, or the video paused or   *)
(* ended, schedules the next iteration and does nothing else: no upload,   *)
(* no draw, no segmenter call; the frame counter, the masks, avgLatency    *)
(* and the skip interval, the last-allocation dimensions and the           *)
(* background key stay as they were.                                       *)
(***************************************************************************)
C25_IdleStep ==
  (Pumped /\ videoState # "playing") =>
    /\ it'.kind = "idle" /\ it'.seg = "none" /\ ~it'.bgUpload /\ ~it'.realloc
    /\ animFrame'
    /\ gl' = gl
    /\ frameCount' = frameCount /\ measCount' = measCount
    /\ blendMask' = blendMask /\ hasMask' = hasMask /\ okEver' = okEver
    /\ avgFrameTime' = avgFrameTime /\ skipInterval' = skipInterval
    /\ lastDims' = lastDims /\ maskAlloc' = maskAlloc
    /\ lastBgKey' = lastBgKey
C25_Idle == [][C25_IdleStep]_vars
\* the stream ended after Composite draws: the iteration idles and the canvas
\* keeps the last composite
C25_Witness ==
  /\ it.kind = "idle" /\ videoState = "ended" /\ animFrame
  /\ hasMask /\ frameCount >= 2 /\ gl.u_mode = 1 /\ gl.out[1] = "composite"

(***************************************************************************)
(* C26: avgLatency and the skip interval change only in iterations that    *)
(* call the segmenter.  An iteration that takes the passthrough gate and   *)
(* an active iteration that skips segmentation leave avgLatency, the skip  *)
(* interval, BlendedMask and the has-mask flag as they were; the gate      *)
(* iteration leaves the frame counter as well, the skipping one raises it. *)
(***************************************************************************)
C26_LoadStatsStep ==
  /\ (avgFrameTime' # avgFrameTime \/ skipInterval' # skipInterval) =>
       (Pumped /\ Invoked(it') /\ measCount' = measCount + 1)
  /\ (Pumped /\ (it'.kind = "gate" \/ it'.seg = "skipped")) =>
       /\ avgFrameTime' = avgFrameTime /\ skipInterval' = skipInterval
       /\ measCount' = measCount
       /\ blendMask' = blendMask /\ hasMask' = hasMask
  /\ (Pumped /\ it'.kind = "gate") => frameCount' = frameCount
  /\ (Pumped /\ it'.seg = "skipped") => frameCount' = frameCount + 1
C26_LoadStats == [][C26_LoadStatsStep]_vars
\* the gate taken on "none" after two measurements had moved the average and
\* raised the interval
C26_Witness ==
  /\ it.kind = "gate" /\ it.bg = "none" /\ measCount = 2 /\ frameCount >= 2
  /\ avgFrameTime # 16 * AvgScale /\ skipInterval > SkipStart
  /\ blendMask # <<>>

(***************************************************************************)
(* C27: after a successful segmentation BlendedMask has as many cells as   *)
(* that segmentation's RawMask; where there was no BlendedMask before, or  *)
(* one of another length, the new BlendedMask is a copy of the RawMask,    *)
(* and only where the lengths agree is it a blend of the two.              *)
(***************************************************************************)
C27_SameLengthStep ==
  it' # it =>
    /\ Len(blendMask') = Len(it'.raw)
    /\ (blendMask = <<>> \/ Len(blendMask) # Len(it'.raw)) =>
         (blendMask' = it'.raw /\ it'.diff = -1)
    /\ (blendMask # <<>> /\ Len(blendMask) = Len(it'.raw)) =>
         /\ it'.diff = MotionDiff(it'.raw, blendMask)
         /\ \A i \in 1..Len(it'.raw) :
              Abs(blendMask'[i] - it'.raw[i]) <= Abs(blendMask[i] - it'.raw[i])
C27_SameLengthState ==
  it.seg = "ok" => (blendMask # <<>> /\ Len(blendMask) = Len(it.raw))
C27_SameLength == []C27_SameLengthState /\ [][C27_SameLengthStep]_vars
\* the third mask had another length than the BlendedMask it met, and
\* replaced it
C27_Witness ==
  /\ it.kind = "blend" /\ measCount = 3 /\ it.diff = -1
  /\ Len(it.raw) = 2 * MaskLen /\ blendMask = it.raw

(***************************************************************************)
(* C28: the has-mask flag is set by the first successful segmentation and  *)
(* never reset; once it is set no iteration takes the no-mask passthrough  *)
(* exit; the first iteration past the gate after gate iterations, if it    *)
(* skips segmentation or its call fails, draws in Composite mode with the  *)
(* mask textures as the last successful segmentation left them.            *)
(***************************************************************************)
C28_HasMaskStep ==
  /\ hasMask => hasMask'
  /\ (Pumped /\ hasMask) => it'.kind # "nomask"
  /\ (Pumped /\ it'.kind = "nomask") => (~hasMask' /\ gl'.u_mode = 0)
  /\ (Pumped /\ hasMask /\ it.kind = "gate" /\ PastGate(it') /\ it'.seg # "ok") =>
       /\ it'.kind = "composite" /\ gl'.u_mode = 1
       /\ gl'.maskTex = gl.maskTex /\ gl'.rawMaskTex = gl.rawMaskTex
       /\ gl'.maskTex = blendMask /\ blendMask' = blendMask
       /\ gl'.out = <<"composite", it'.frame, <<it'.w, it'.h>>, gl.maskTex,
                      gl.rawMaskTex, gl'.bgTex>>
C28_HasMaskState == hasMask <=> okEver
C28_HasMask == []C28_HasMaskState /\ [][C28_HasMaskStep]_vars
\* back from "none": the iteration after the gate found the call throwing and
\* drew the composite with the masks from before the switch
C28_Witness ==
  /\ it.kind = "composite" /\ it.afterGate /\ it.seg = "threw"
  /\ hasMask /\ env.user /\ gl.maskTex = blendMask /\ gl.u_mode = 1

(***************************************************************************)
(* C29: every pump iteration, whichever exit it takes (idle, passthrough   *)
(* gate, no-mask passthrough, Composite) and whatever the segmenter did,   *)
(* schedules exactly one next iteration; while RecordScreen is mounted and *)
(* the effect has its context exactly one pump callback is pending, and    *)
(* none after the unmount.                                                 *)
(***************************************************************************)
C29_OnePendingStep ==
  Pumped =>
    /\ pendingFrames = 1 /\ pendingFrames' = 1 /\ animFrame'
    /\ it'.kind \in {"idle", "gate", "nomask", "composite"}
    /\ it'.seg \in {"none", "skipped", "threw", "nomask", "ok"}
C29_OnePendingState ==
  /\ pendingFrames = (IF webgl2 /\ mounted THEN 1 ELSE 0)
  /\ animFrame <=> (pendingFrames = 1)
C29_OnePending == []C29_OnePendingState /\ [][C29_OnePendingStep]_vars
\* a call that threw before any mask was acquired: the iteration left by the
\* no-mask passthrough with the next one scheduled
C29_Witness ==
  /\ it.kind = "nomask" /\ it.seg = "threw" /\ mounted /\ webgl2
  /\ pendingFrames = 1 /\ animFrame /\ frameCount >= 2

(***************************************************************************)
(* C30: the skip gate never starves the segmenter: of iterations past the  *)
(* gate, at most MAX - 1 in a row skip segmentation (MAX is 2 now, 4 in    *)
(* the first version), whatever latencies are measured and however the     *)
(* skip interval moves.                                                    *)
(***************************************************************************)
C30_NoStarvationStep ==
  it' # it =>
    /\ it'.seg = "skipped" => it'.skipRun = it.skipRun + 1
    /\ it'.seg # "skipped" => it'.skipRun = 0
    /\ it.skipRun = SkipMax - 1 => it'.seg # "skipped"
C30_NoStarvationState == it.skipRun <= SkipMax - 1
C30_NoStarvation == []C30_NoStarvationState /\ [][C30_NoStarvationStep]_vars
\* the first version: three skipped iterations in a row, under an interval
\* that a measurement had just raised to 4
C30_Witness ==
  /\ ver = 1 /\ it.seg = "skipped" /\ it.skipRun = 3 /\ skipInterval = 4
  /\ measCount >= 1

(***************************************************************************)
(* C31: the first load-controller update of a session raises the skip      *)
(* interval by one (1 to 2 now, 2 to 3 in the first version) whatever      *)
(* latency it measured, the average having started at 16; and no update    *)
(* lowers the interval unless it leaves the average below 3.               *)
(***************************************************************************)
C31_FirstUpdateStep ==
  /\ (measCount = 0 /\ measCount' = 1) =>
       /\ avgFrameTime = 16 * AvgScale
       /\ avgFrameTime' > 8 * AvgScale
       /\ skipInterval = SkipStart
       /\ skipInterval' = SkipStart + 1
  /\ skipInterval' < skipInterval =>
       (avgFrameTime' < 3 * AvgScale /\ measCount' = measCount + 1 /\ measCount >= 1)
C31_FirstUpdateState ==
  /\ measCount = 0 => (avgFrameTime = 16 * AvgScale /\ skipInterval = SkipStart)
  /\ avgFrameTime >= 3 * AvgScale => skipInterval >= Min(SkipMax, SkipStart + measCount)
C32_TimestampsStep ==
  measCount' # measCount =>
    /\ lastTime' > lastTime
    /\ lastTime' >= it'.now
    /\ it'.now > lastTime => lastTime' = it'.now
    /\ it'.now <= lastTime => lastTime' = lastTime + 1
C32_TimestampsState == lastTime >= measCount
C32_Timestamps == []C32_TimestampsState /\ [][C32_TimestampsStep]_vars
\* the clock read less than at an earlier call: the timestamp is past every
\* reading the clock has given
C32_Witness ==
  /\ measCount >= 3 /\ it.now < lastTime - 1 /\ lastTime > MaxClock

(***************************************************************************)
(* C33: with every RawMask cell in [0,1], every BlendedMask cell is in     *)
(* [0,1] after any sequence of blends; each blend leaves a cell between    *)
(* its value before and the raw cell, the weight of the raw cell being     *)
(* within [0,1].                                                           *)
(***************************************************************************)
C33_ConvexStep ==
  (it' # it /\ it'.diff # -1) =>
    \A i \in 1..Len(it'.raw) :
      LET la == LocalAlpha(GlobalAlpha(it'.diff), Uncertainty(it'.raw[i]), ver) IN
      /\ 0 <= la /\ la <= Unit
      /\ blendMask'[i] >= (IF blendMask[i] < it'.raw[i] THEN blendMask[i] ELSE it'.raw[i])
      /\ blendMask'[i] <= (IF blendMask[i] > it'.raw[i] THEN blendMask[i] ELSE it'.raw[i])
C33_ConvexState ==
  /\ \A i \in 1..Len(it.raw) : 0 <= it.raw[i] /\ it.raw[i] <= Unit
  /\ \A i \in 1..Len(blendMask) : 0 <= blendMask[i] /\ blendMask[i] <= Unit
C33_Convex == []C33_ConvexState /\ [][C33_ConvexStep]_vars
\* a blend at less than full weight: some cell stopped strictly inside (0,1),
\* short of a raw cell at 0 or 1
C33_Witness ==
  /\ it.kind = "blend" /\ it.diff # -1 /\ measCount >= 2
  /\ \E i \in 1..Len(it.raw) :
       /\ it.raw[i] \in {0, Unit}
       /\ 0 < blendMask[i] /\ blendMask[i] < Unit

(***************************************************************************)
(* C36: a POST /api/upload that is answered 400 because its email is       *)
(* missing or invalid leaves no file of that request in the uploads        *)
(* directory: the stored file is unlinked before the response is sent.     *)
(***************************************************************************)
\* a request whose video was stored and whose email is not an address
RejectedEmail(r) ==
  /\ r.body = "multipart" /\ r.file = "video"
  /\ ~(r.email.k = "string" /\ WellFormed(r.email.s))
C36_NoOrphan ==
  (http.pc = "done" /\ RejectedEmail(http.req)) =>
    /\ http.res[1].status = 400
    /\ ~http.disk
\* the same, for an email field that is absent or a string: the branch of
\* lines 44-47
C36_StringEmail ==
  (http.pc = "done" /\ RejectedEmail(http.req) /\ http.req.email.k # "nonstring") =>
    /\ http.res[1] = ErrorResponse("Valid email is required")
    /\ ~http.disk

(***************************************************************************)
(* C34: while recording, elapsed grows by one at every timer tick and      *)
(* never exceeds MAX_DURATION; at MAX_DURATION the timer is cleared and    *)
(* the recorder stopped; stop() takes effect at most once per recording,   *)
(* whether asked by the button, the timer or both; the phase moves only    *)
(* setup -> countdown -> recording -> preview -> setup.                    *)
(***************************************************************************)
PhaseMoves == {<<"setup", "countdown">>, <<"countdown", "recording">>,
               <<"recording", "preview">>, <<"preview", "setup">>}
C34_RecordingStep ==
  /\ recScreen'.phase # recScreen.phase => <<recScreen.phase, recScreen'.phase>> \in PhaseMoves
  /\ (recScreen' # recScreen /\ recScreen'.last = "tick") =>
       /\ recScreen.phase = "recording" /\ recScreen'.elapsed = recScreen.elapsed + 1
  /\ (recScreen.phase = "recording" /\ recScreen'.elapsed # recScreen.elapsed) => recScreen'.last = "tick"
  /\ (recScreen'.elapsed = MAX_DURATION /\ recScreen.elapsed # MAX_DURATION) =>
       /\ ~recScreen'.timer /\ recScreen'.mediaRecorder = "inactive" /\ recScreen'.stopEvent
  /\ recScreen'.stops > recScreen.stops => (recScreen.stops = 0 /\ recScreen.mediaRecorder = "recording")
  /\ (recScreen.phase = "recording" /\ recScreen'.phase = "preview") =>
       /\ recScreen.stops = 1 /\ ~recScreen.timer /\ recScreen'.last = "onstop"
C34_RecordingState ==
  /\ recScreen.elapsed \in 0..MAX_DURATION
  /\ recScreen.stops <= 1
  /\ recScreen.timer => (recScreen.phase = "recording" /\ recScreen.mediaRecorder = "recording"
                     /\ recScreen.elapsed < MAX_DURATION)
  /\ recScreen.elapsed = MAX_DURATION => (~recScreen.timer /\ recScreen.mediaRecorder = "inactive")
C34_Recording == []C34_RecordingState /\ [][C34_RecordingStep]_vars
\* the second recording ran to the limit: the tick from 29 stopped the
\* recorder, a click on the stop button before onstop changed nothing
C34_Witness ==
  /\ recScreen.takes = 2 /\ recScreen.phase = "recording" /\ recScreen.elapsed = MAX_DURATION
  /\ recScreen.last = "stopClick" /\ recScreen.stops = 1 /\ recScreen.stopEvent /\ ~recScreen.timer

(***************************************************************************)
(* C35: the uploading screen is left for the success screen only after a   *)
(* response with a status in 200..299; after any other status or a network *)
(* error it is left for the email screen with a non-empty error message,   *)
(* the server's error field where the response has one, and success is     *)
(* never shown for that upload; every upload attempt starts with progress  *)
(* 0 and an empty error.                                                   *)
(***************************************************************************)
Answered2xx(a) == a.resp.status \in 200..299
C35_UploadStep ==
  /\ (app'.screen = "success" /\ app.screen # "success") =>
       /\ app.screen = "uploading" /\ Answered2xx(app)
  /\ (app.screen = "uploading" /\ app'.screen # "uploading") =>
       \/ app'.screen = "success"
       \/ /\ app'.screen = "email"
          /\ app.resp = NoResponse /\ app'.resp # NoResponse /\ ~Answered2xx(app')
          /\ app'.uploadError # ""
          /\ (app'.resp.body.hasError /\ app'.resp.body.error # "") =>
               app'.uploadError = app'.resp.body.error
  /\ (app.resp = NoResponse /\ app'.resp # NoResponse /\ ~Answered2xx(app')) =>
       /\ app.screen = "uploading" /\ app'.screen = "email" /\ ~app'.timeout
  /\ app'.uploads # app.uploads =>
       /\ app'.uploads = app.uploads + 1 /\ app'.screen = "uploading"
       /\ app'.uploadProgress = 0 /\ app'.uploadError = "" /\ app'.resp = NoResponse
C35_UploadState ==
  /\ (app.screen = "success" \/ app.timeout) => Answered2xx(app)
  /\ (app.resp # NoResponse /\ ~Answered2xx(app)) => app.screen # "uploading"
C35_Upload == []C35_UploadState /\ [][C35_UploadStep]_vars
\* a second attempt, made with the error of the failed first one on the
\* screen, was answered 299 and is shown as a success
C35_Witness ==
  /\ app.uploads = 2 /\ app.failed = 1 /\ app.screen = "success"
  /\ app.resp.status = 299 /\ app.uploadError = "" /\ app.uploadProgress = 100

====
